---- MODULE Spec2Model ----
(***************************************************************************)
(* Model of the ADGM corporate document analyzer:                          *)
(*   checklist_verifier.py  (compliance scorer, process identification)    *)
(*   document_analyzer.py   (document type, issue extraction cascade)      *)
(*   document_processor.py  (section extraction)                           *)
(*   rag_engine.py          (query engine, degraded mode, ingestion)       *)
(*   adgm_scraper.py        (stand-alone ingestion of the same sources)    *)
(*   streamlit_app.py       (analysis run, knowledge-base rebuild)         *)
(*                                                                         *)
(* Text is modelled as a sequence of tokens.  A token is one whitespace-   *)
(* separated word; "." and "\n" are tokens of their own ("." closes the    *)
(* word before it, "\n" is a line break).  Python's substring test         *)
(* `k in s.lower()` is modelled by lower-casing every token and looking    *)
(* for the key either as a run of whole tokens (a phrase) or inside one    *)
(* token (InWord lists the vocabulary words that contain a key as a        *)
(* proper substring, e.g. "data" in "database").                           *)
(***************************************************************************)
EXTENDS Integers, Sequences, FiniteSets, TLC

VARIABLES
    ty_pc,          \* type identification: "idle" | "loaded" | "identified"
    ty_filename,    \* type identification: doc_info["filename"]
    ty_content,     \* type identification: doc_info["content"]
    ty_outcome,     \* type identification: what rag_engine.query did
    ty_queried,     \* type identification: whether rag_engine.query was called
    ty_result,      \* type identification: the dict identify_document_type returned
    dp_pc,          \* processor: "build" | "extracted"
    dp_paragraphs,  \* processor: doc.paragraphs of the uploaded document
    dp_sections,    \* processor: the list _extract_document_sections returned
    an_pc,          \* analyzer: "idle" | "loaded" | "analyzed"
    an_content,     \* analyzer: doc_info["content"]
    an_sections,    \* analyzer: titles of doc_info["sections"]
    an_type,        \* analyzer: doc_type_info["type"]
    an_outcome,     \* analyzer: what rag_engine.query did in analyze_document
    an_queried,     \* analyzer: whether analyze_document called rag_engine.query
    an_issues,      \* analyzer: the list analyze_document returned
    cv_pc,          \* process identification: "idle" | "loaded" | "identified" | "checked"
    cv_types,       \* process identification: the document_types argument
    cv_outcome,     \* process identification: what rag_engine.query did
    cv_queried,     \* process identification: whether rag_engine.query was called
    cv_result,      \* process identification: the dict identify_process returned
    cv_checked,     \* missing-document check: its process_info argument
    cv_missing,     \* missing-document check: the list check_missing_documents returned
    en_pc,          \* engine: "none" | "failed" | "ready" | "answered"
    en_llm,         \* engine: self.llm is not None
    en_vectorstore, \* engine: self.vectorstore is not None
    en_qa_chain,    \* engine: self.qa_chain is not None
    en_chain,       \* engine: what the QA chain did in the last query
    en_invoked,     \* engine: whether the last query invoked the QA chain
    en_raised,      \* engine: whether the last query raised to its caller
    en_answer,      \* engine: the string the last query returned
    run_pc,         \* run: "idle" | "process" | "identify" | "analyze" | "comment" | "report" | "done"
    run_uploads,    \* run: uploaded_files, each a name and the file's bytes
    run_highlight,  \* run: the "Highlight Issues in Documents" checkbox
    run_disk,       \* run: the files of temp_dir, by path
    run_saved,      \* run: saved_files
    run_i,          \* run: position of the loop in progress
    run_errors,     \* run: the error objects shown with st.error, with their path index
    run_processed,  \* run: processed_docs (src: the index in saved_files it came from)
    run_doc_types,  \* run: doc_types, as the dict's items in insertion order
    run_process_info, \* run: process_info
    run_missing,    \* run: missing_docs
    run_analysed,   \* run: per processed document, the type the analysis loop identified
    run_all_issues, \* run: all_issues
    run_produced,   \* run: per processed document, the issues analyze_document returned for it
    run_handed,     \* run: per processed document, the issues given to add_comments
    run_summary_info, \* run: the process_info of generate_process_summary
    run_summary,    \* run: process_summary
    run_report,     \* run: report
    run_calls,      \* run: how often rag_engine.query was called, by purpose and document
    kb_pc,          \* knowledge base: "none" | "load" | "load_setup" | "collect" | "collect_setup" | "constructed" | "cached" | "crashed"
    kb_disk,        \* knowledge base: the snapshot under data_dir/vectorstore
    kb_passes,      \* knowledge base: how many indexes were built from the corpus so far
    kb_engine,      \* knowledge base: the engine load_components returned last
    kb_new,         \* knowledge base: the engine whose __init__ is running
    kb_build,       \* knowledge base: what the running or last __init__ met
    kb_rebuild,     \* knowledge base: st.session_state["rebuild_rag"]
    kb_rebuilt,     \* knowledge base: a rebuild request cleared the cache
    kb_before,      \* knowledge base: the snapshot on disk at the last rebuild request
    kb_seen,        \* knowledge base: what the last query found
    ig_pc,          \* ingestion: "idle" | "collecting" | "saved"
    ig_producer,    \* ingestion: "engine" | "scraper", who runs the pass
    ig_sources,     \* ingestion: the source list of the pass
    ig_n,           \* ingestion: how many sources the loop has been through
    ig_documents,   \* ingestion: the documents ingested by the pass
    ig_metadata,    \* ingestion: metadata_list / self.document_metadata
    ig_file,        \* ingestion: the content of document_metadata.json
    sc_pc,          \* scorer: "collect" | "scored"
    sc_missing,     \* scorer: missing_docs argument
    sc_issues,      \* scorer: issues_found argument
    sc_compliance,  \* scorer: local `compliance` before the final clamp
    sc_result       \* scorer: returned percentage

scoreVars == <<sc_pc, sc_missing, sc_issues, sc_compliance, sc_result>>

analyzerVars == <<an_pc, an_content, an_sections, an_type, an_outcome,
                  an_queried, an_issues>>

processorVars == <<dp_pc, dp_paragraphs, dp_sections>>

typeVars == <<ty_pc, ty_filename, ty_content, ty_outcome, ty_queried, ty_result>>

verifierVars == <<cv_pc, cv_types, cv_outcome, cv_queried, cv_result, cv_checked,
                  cv_missing>>

engineVars == <<en_pc, en_llm, en_vectorstore, en_qa_chain, en_chain,
                en_invoked, en_raised, en_answer>>

runVars == <<run_pc, run_uploads, run_highlight, run_disk, run_saved, run_i,
             run_errors, run_processed, run_doc_types, run_process_info,
             run_missing, run_analysed, run_all_issues, run_produced, run_handed,
             run_summary_info, run_summary, run_report, run_calls>>

kbVars == <<kb_pc, kb_disk, kb_passes, kb_engine, kb_new, kb_build, kb_rebuild,
            kb_rebuilt, kb_before, kb_seen>>

ingestVars == <<ig_pc, ig_producer, ig_sources, ig_n, ig_documents, ig_metadata, ig_file>>

vars == <<typeVars, verifierVars, engineVars, processorVars, analyzerVars,
          scoreVars, runVars, kbVars, ingestVars>>

\* what the actions of one component leave alone
notType == <<verifierVars, engineVars, processorVars, analyzerVars, scoreVars, runVars, kbVars, ingestVars>>
notVerifier == <<typeVars, engineVars, processorVars, analyzerVars, scoreVars, runVars, kbVars, ingestVars>>
notEngine == <<typeVars, verifierVars, processorVars, analyzerVars, scoreVars, runVars, kbVars, ingestVars>>
notProcessor == <<typeVars, verifierVars, engineVars, analyzerVars, scoreVars, runVars, kbVars, ingestVars>>
notAnalyzer == <<typeVars, verifierVars, engineVars, processorVars, scoreVars, runVars, kbVars, ingestVars>>
notScore == <<typeVars, verifierVars, engineVars, processorVars, analyzerVars, runVars, kbVars, ingestVars>>
notRun == <<typeVars, verifierVars, engineVars, processorVars, analyzerVars, scoreVars, kbVars, ingestVars>>
notKb == <<typeVars, verifierVars, engineVars, processorVars, analyzerVars, scoreVars, runVars, ingestVars>>
notIngest == <<typeVars, verifierVars, engineVars, processorVars, analyzerVars, scoreVars, runVars, kbVars>>

-----------------------------------------------------------------------------
(* Generic helpers *)

None == "None"          \* Python None
Absent == "<absent>"    \* a key that is not in a dict

NoneText == <<"<None>">>      \* a text field whose value is None
AbsentText == <<"<absent>">>  \* a text field the dict does not have
General == <<"General">>

Max(a, b) == IF a >= b THEN a ELSE b
Min(a, b) == IF a <= b THEN a ELSE b

\* every sequence over S of length 0..n
SeqUpTo(S, n) == UNION {[1..k -> S] : k \in 0..n}

-----------------------------------------------------------------------------
(* Text: token sequences and Python's string operations on them *)

NL == "\n"
DOT == "."

\* <<t, t.lower()>> for the tokens of the vocabulary that are not lower case
LowerPairs ==
    {<<"\"severity\":\"Critical\"", "\"severity\":\"critical\"">>,
     <<"\"severity\":\"High\"", "\"severity\":\"high\"">>,
     <<"(Unknown)", "(unknown)">>, <<"A", "a">>, <<"ADGM", "adgm">>,
     <<"About", "about">>, <<"Accounts", "accounts">>, <<"Annual", "annual">>,
     <<"Article", "article">>, <<"Articles", "articles">>,
     <<"Association", "association">>, <<"BOARD", "board">>,
     <<"Board", "board">>, <<"Branch", "branch">>,
     <<"Checklist", "checklist">>, <<"Clause:", "clause:">>,
     <<"Companies", "companies">>, <<"Company", "company">>,
     <<"Compliance", "compliance">>, <<"Contract", "contract">>,
     <<"Corporate", "corporate">>, <<"Critical", "critical">>,
     <<"DIRECTORS", "directors">>, <<"DOCX", "docx">>, <<"Data", "data">>,
     <<"Declaration", "declaration">>, <<"Directors", "directors">>,
     <<"Document", "document">>, <<"Employment", "employment">>,
     <<"Ensuring", "ensuring">>, <<"Error", "error">>,
     <<"Essential", "essential">>, <<"Establishing", "establishing">>,
     <<"Establishment", "establishment">>,
     <<"FakeEmbeddings", "fakeembeddings">>, <<"Fix:", "fix:">>,
     <<"Form", "form">>, <<"General", "general">>, <<"Gone", "gone">>,
     <<"Governance", "governance">>, <<"High", "high">>,
     <<"HuggingFaceEmbeddings", "huggingfaceembeddings">>, <<"I", "i">>,
     <<"ImportError", "importerror">>, <<"Incorporation", "incorporation">>,
     <<"Issue:", "issue:">>, <<"JSONDecodeError", "jsondecodeerror">>,
     <<"Jurisdiction", "jurisdiction">>, <<"Looks", "looks">>,
     <<"Low", "low">>, <<"Medium", "medium">>, <<"Members", "members">>,
     <<"Memorandum", "memorandum">>, <<"Must", "must">>, <<"None", "none">>,
     <<"OF", "of">>, <<"OSError", "oserror">>, <<"PDF", "pdf">>,
     <<"Please", "please">>, <<"Policy", "policy">>,
     <<"Priority:", "priority:">>, <<"Problem:", "problem:">>,
     <<"Protection", "protection">>, <<"Quorum", "quorum">>, <<"RAG", "rag">>,
     <<"RESOLUTION", "resolution">>, <<"Recommend", "recommend">>,
     <<"Reference:", "reference:">>, <<"Regarding", "regarding">>,
     <<"Register", "register">>, <<"Registration", "registration">>,
     <<"Regulations", "regulations">>, <<"Required", "required">>,
     <<"Resolution", "resolution">>, <<"Section:", "section:">>,
     <<"See", "see">>, <<"Setting", "setting">>, <<"Setup", "setup">>,
     <<"Severity:", "severity:">>, <<"Shareholder", "shareholder">>,
     <<"Sources:", "sources:">>, <<"THE", "the">>,
     <<"Templates", "templates">>, <<"Terms", "terms">>, <<"The", "the">>,
     <<"This", "this">>, <<"UBO", "ubo">>, <<"Unable", "unable">>,
     <<"Unknown", "unknown">>, <<"Update", "update">>,
     <<"Updating", "updating">>, <<"We", "we">>, <<"We,", "we,">>,
     <<"Webpage", "webpage">>}

\* str.lower() of one token
Lower(tok) ==
    IF \E p \in LowerPairs : p[1] = tok
    THEN (CHOOSE p \in LowerPairs : p[1] = tok)[2]
    ELSE tok

\* s.lower()
lower(text) == [i \in DOMAIN text |-> Lower(text[i])]

\* <<w, k>>: the lower-case word w contains the key k as a proper substring
InWord ==
    {<<"\"issue\":\"no quorum clause\"", "issue">>,
     <<"\"section\":\"directors\"", "directors">>,
     <<"\"severity\":\"critical\"", "critical">>,
     <<"\"severity\":\"high\"", "high">>,
     <<"adgm.com/annual-accounts", "annual">>,
     <<"adgm.com/contract.docx", "contract">>, <<"articles", "article">>,
     <<"below", "low">>, <<"database", "data">>, <<"follow", "low">>,
     <<"follows", "low">>, <<"incorrect:", "incorrect">>,
     <<"issue:", "issue">>, <<"issues", "issue">>, <<"missing:", "missing">>,
     <<"office", "of">>, <<"shareholders", "shareholder">>}

\* <<w, k>>: the lower-case word w starts with k, the last word of a phrase
PrefixPairs ==
    {<<"compliance:", "compliance">>, <<"document:", "document">>,
     <<"document_type", "document">>, <<"documentation", "document">>,
     <<"documents", "document">>, <<"documents:", "document">>,
     <<"office", "of">>, <<"ownership", "owner">>, <<"updated", "update">>}

\* <<w, k>>: the lower-case word w ends with k, the first word of a phrase
SuffixPairs ==
    {}

\* k in w, w.startswith(k), w.endswith(k) for lower-case words
WordHas(w, k) == w = k \/ <<w, k>> \in InWord
WordStarts(w, k) == w = k \/ <<w, k>> \in PrefixPairs
WordEnds(w, k) == w = k \/ <<w, k>> \in SuffixPairs

\* `phrase in text`, both lower case.  A one-word phrase may sit inside a
\* word; a longer phrase is a run of words on one line, single spaces
\* between them, that may begin inside its first word and end inside its last
Contains(text, phrase) ==
    IF Len(phrase) = 1
    THEN \E i \in DOMAIN text : WordHas(text[i], phrase[1])
    ELSE \E i \in 1..(Len(text) - Len(phrase) + 1) :
            /\ WordEnds(text[i], phrase[1])
            /\ WordStarts(text[i + Len(phrase) - 1], phrase[Len(phrase)])
            /\ \A j \in 2..(Len(phrase) - 1) : text[i + j - 1] = phrase[j]

\* phrase.lower() in text.lower()
ContainsIgnoreCase(text, phrase) == Contains(lower(text), lower(phrase))

\* s.strip(): leading and trailing line breaks are white space
RECURSIVE strip(_)
strip(text) ==
    IF text = <<>> THEN <<>>
    ELSE IF Head(text) = NL THEN strip(Tail(text))
    ELSE IF text[Len(text)] = NL THEN strip(SubSeq(text, 1, Len(text) - 1))
    ELSE text

\* the concatenation of a list of texts
RECURSIVE Concat(_)
Concat(parts) ==
    IF parts = <<>> THEN <<>> ELSE Head(parts) \o Concat(Tail(parts))

\* first index >= from with text[i] in toks, or 0
RECURSIVE IndexFrom(_, _, _)
IndexFrom(text, toks, from) ==
    IF from > Len(text) THEN 0
    ELSE IF text[from] \in toks THEN from
    ELSE IndexFrom(text, toks, from + 1)

-----------------------------------------------------------------------------
(* document_processor.py : _extract_document_sections *)

MaxParagraphs == 4   \* longest document explored

\* paragraph texts, by what the code asks of them
BlankTexts == {"", "   "}
UpperTexts == {"DIRECTORS", "RESOLUTION OF THE BOARD OF DIRECTORS",
               "LONG UPPER-CASE PARAGRAPH OF 120 CHARACTERS"}
LongTexts == {"long paragraph of 120 characters",
              "LONG UPPER-CASE PARAGRAPH OF 120 CHARACTERS"}

\* para.text.strip() is not empty
has_text(text) == text \notin BlankTexts
\* para.text.strip().isupper()
isupper(text) == text \in UpperTexts
\* len(para.text.strip()) < 100
is_short(text) == text \notin LongTexts

\* a paragraph: whether its style name starts with 'Heading', whether it has
\* runs and the first one is bold, and its text
Paragraph(heading_style, first_run_bold, text) ==
    [heading_style |-> heading_style, first_run_bold |-> first_run_bold, text |-> text]

ParagraphKinds ==
    {Paragraph(FALSE, FALSE, "We resolve as follows"),
     Paragraph(FALSE, FALSE, ""),
     Paragraph(FALSE, FALSE, "   "),
     Paragraph(FALSE, FALSE, "DIRECTORS"),
     Paragraph(TRUE, FALSE, "Article 1"),
     Paragraph(TRUE, FALSE, ""),
     Paragraph(FALSE, TRUE, "Quorum"),
     Paragraph(FALSE, TRUE, "   "),
     Paragraph(FALSE, TRUE, "long paragraph of 120 characters"),
     Paragraph(FALSE, FALSE, "LONG UPPER-CASE PARAGRAPH OF 120 CHARACTERS")}

\* lines 63-69
is_heading(para) ==
    IF para.heading_style THEN TRUE
    ELSE IF para.first_run_bold /\ is_short(para.text) THEN TRUE
    ELSE isupper(para.text) /\ is_short(para.text) /\ has_text(para.text)

\* line 72: the paragraph starts a new section
starts_section(para) == is_heading(para) /\ has_text(para.text)

\* mutant: a section is saved whether or not it has content
content_has_text_always(content) == TRUE

\* section["content"].strip() is not empty; content is kept as the list of
\* the texts that were added, each followed by "\n"
content_has_text(content) == \E k \in DOMAIN content : has_text(content[k])

GeneralSection == [title |-> "General", content |-> <<>>, paragraphs |-> <<>>]

\* lines 61-90: the loop from paragraph n (1-based here, index n-1 in the
\* code) and the final append
RECURSIVE extract_loop(_, _, _, _)
extract_loop(paragraphs, n, sections, current_section) ==
    IF n > Len(paragraphs)
    THEN IF content_has_text(current_section.content)
         THEN Append(sections, current_section)
         ELSE sections
    ELSE LET para == paragraphs[n]
         IN IF starts_section(para)
            THEN extract_loop(paragraphs, n + 1,
                     IF content_has_text(current_section.content)
                     THEN Append(sections, current_section)
                     ELSE sections,
                     [title |-> para.text, content |-> <<>>, paragraphs |-> <<n - 1>>])
            ELSE extract_loop(paragraphs, n + 1, sections,
                     [current_section EXCEPT
                         !.content = Append(@, para.text),
                         !.paragraphs = Append(@, n - 1)])

\* _extract_document_sections(doc)
extract_document_sections(paragraphs) ==
    extract_loop(paragraphs, 1, <<>>, GeneralSection)

ProcessorIdle ==
    /\ dp_pc = "build"
    /\ dp_paragraphs = <<>>
    /\ dp_sections = <<>>

\* the uploaded document has one more paragraph
DpAddParagraph ==
    /\ dp_pc = "build"
    /\ Len(dp_paragraphs) < MaxParagraphs
    /\ \E para \in ParagraphKinds : dp_paragraphs' = Append(dp_paragraphs, para)
    /\ UNCHANGED <<dp_pc, dp_sections>>
    /\ UNCHANGED notProcessor

\* process_document reaches line 42
DpExtractSections ==
    /\ dp_pc = "build"
    /\ dp_sections' = extract_document_sections(dp_paragraphs)
    /\ dp_pc' = "extracted"
    /\ UNCHANGED dp_paragraphs
    /\ UNCHANGED notProcessor

-----------------------------------------------------------------------------
(* utils/document_types.py : DOCUMENT_SIGNATURES, in the dict's order      *)
(* (the token "<en dash>" stands for the character U+2013 of line 133)     *)

Signature(phrase, doc_type) == [signature |-> phrase, doc_type |-> doc_type]

DOCUMENT_SIGNATURES ==
    <<Signature(<<"articles", "of", "association", "of">>, "Articles of Association"),
      Signature(<<"memorandum", "of", "association">>, "Memorandum of Association"),
      Signature(<<"we,", "the", "undersigned", "directors">>, "Board Resolution"),
      Signature(<<"resolution", "of", "the", "board", "of", "directors">>, "Board Resolution"),
      Signature(<<"resolution", "of", "the", "shareholders">>, "Shareholder Resolution"),
      Signature(<<"we,", "being", "the", "shareholders">>, "Shareholder Resolution"),
      Signature(<<"special", "resolution", "of", "the", "members">>, "Shareholder Resolution"),
      Signature(<<"employment", "contract">>, "Employment Contract"),
      Signature(<<"contract", "of", "employment">>, "Employment Contract"),
      Signature(<<"declaration", "of", "beneficial", "ownership">>, "UBO Declaration"),
      Signature(<<"ubo", "declaration", "form">>, "UBO Declaration"),
      Signature(<<"certificate", "of", "incorporation">>, "Company Incorporation"),
      Signature(<<"register", "of", "members", "of">>, "Register of Members"),
      Signature(<<"data", "protection", "policy">>, "Data Protection Policy"),
      Signature(<<"appropriate", "policy", "document">>, "Data Protection Policy"),
      Signature(<<"annual", "accounts", "for", "the", "financial", "year">>, "Annual Accounts"),
      Signature(<<"branch", "registration", "application">>, "Branch Registration"),
      Signature(<<"checklist", "<en dash>", "company", "set-up">>, "Checklist")>>

-----------------------------------------------------------------------------
(* document_analyzer.py : identify_document_type, _extract_doc_type_from_rag *)

\* a confidence, as the fraction num/den
Frac(num, den) == [num |-> num, den |-> den]

\* the candidate labels of _extract_doc_type_from_rag (lines 84-94), each
\* with doc_type.lower().split()
DocTypeLabels ==
    <<[label |-> "Articles of Association", parts |-> <<"articles", "of", "association">>],
      [label |-> "Memorandum of Association", parts |-> <<"memorandum", "of", "association">>],
      [label |-> "Board Resolution", parts |-> <<"board", "resolution">>],
      [label |-> "Shareholder Resolution", parts |-> <<"shareholder", "resolution">>],
      [label |-> "Employment Contract", parts |-> <<"employment", "contract">>],
      [label |-> "UBO Declaration", parts |-> <<"ubo", "declaration">>],
      [label |-> "Data Protection Policy", parts |-> <<"data", "protection", "policy">>],
      [label |-> "Register of Members", parts |-> <<"register", "of", "members">>],
      [label |-> "Register of Directors", parts |-> <<"register", "of", "directors">>]>>

\* the words of the labels with len(part) <= 3
ShortParts == {"of", "ubo"}

\* least index of a non-empty set of indices
First(S) == CHOOSE i \in S : \A j \in S : i <= j

\* lines 102-111: number of parts longer than 3 characters found in the answer
part_matches(parts, response_lower) ==
    Cardinality({n \in DOMAIN parts :
                    /\ parts[n] \notin ShortParts
                    /\ Contains(response_lower, <<parts[n]>>)})

\* mutant: a label is accepted with two of its words missing
fuzzy_accepts_loose(parts, response_lower) ==
    Len(parts) > 1 /\ part_matches(parts, response_lower) >= Len(parts) - 2

\* lines 104-110: the partial match of one label
fuzzy_accepts(parts, response_lower) ==
    Len(parts) > 1 /\ part_matches(parts, response_lower) >= Len(parts) - 1

\* mutant: the partial matches are tried before the exact ones
extract_doc_type_from_rag_fuzzy_first(rag_response) ==
    IF rag_response = <<>> THEN None
    ELSE LET response_lower == lower(rag_response)
             exact == {n \in DOMAIN DocTypeLabels :
                          Contains(response_lower, DocTypeLabels[n].parts)}
             partial == {n \in DOMAIN DocTypeLabels :
                            fuzzy_accepts(DocTypeLabels[n].parts, response_lower)}
         IN IF partial # {} THEN DocTypeLabels[First(partial)].label
            ELSE IF exact # {} THEN DocTypeLabels[First(exact)].label
            ELSE None

\* _extract_doc_type_from_rag(rag_response): a label, or None
extract_doc_type_from_rag(rag_response) ==
    IF rag_response = <<>> THEN None
    ELSE LET response_lower == lower(rag_response)
             exact == {n \in DOMAIN DocTypeLabels :
                          Contains(response_lower, DocTypeLabels[n].parts)}
             partial == {n \in DOMAIN DocTypeLabels :
                            fuzzy_accepts(DocTypeLabels[n].parts, response_lower)}
         IN IF exact # {} THEN DocTypeLabels[First(exact)].label
            ELSE IF partial # {} THEN DocTypeLabels[First(partial)].label
            ELSE None

TypeResult(type, confidence, signature_match, rag_identification) ==
    [type |-> type, confidence |-> confidence,
     signature_match |-> signature_match, rag_identification |-> rag_identification]

\* mutant: signatures of more than four words are never found
matching_signatures_short_only(content) ==
    {n \in DOMAIN DOCUMENT_SIGNATURES :
        /\ Len(DOCUMENT_SIGNATURES[n].signature) <= 4
        /\ ContainsIgnoreCase(content, DOCUMENT_SIGNATURES[n].signature)}

\* lines 28-30: the indices of the signatures the content contains
matching_signatures(content) ==
    {n \in DOMAIN DOCUMENT_SIGNATURES :
        ContainsIgnoreCase(content, DOCUMENT_SIGNATURES[n].signature)}

\* lines 61-76: the filename / content keyword checks
heuristic_document_type(filename, content) ==
    LET filename_lower == lower(filename)
        content_lower == lower(content)
        inname(k) == Contains(filename_lower, k)
        incontent(k) == Contains(content_lower, k)
        guess(type) == TypeResult(type, Frac(6, 10), AbsentText, FALSE)
    IN IF inname(<<"article">>) \/ incontent(<<"article">>)
       THEN guess("Articles of Association")
       ELSE IF inname(<<"memorandum">>) \/ incontent(<<"memorandum">>)
       THEN guess("Memorandum of Association")
       ELSE IF inname(<<"board">>) /\ inname(<<"resolution">>)
       THEN guess("Board Resolution")
       ELSE IF inname(<<"shareholder">>) /\ inname(<<"resolution">>)
       THEN guess("Shareholder Resolution")
       ELSE IF inname(<<"employment">>) \/ inname(<<"contract">>)
       THEN guess("Employment Contract")
       ELSE IF inname(<<"ubo">>) \/ incontent(<<"beneficial", "owner">>)
       THEN guess("UBO Declaration")
       ELSE IF inname(<<"data", "protection">>) \/ incontent(<<"data", "protection">>)
       THEN guess("Data Protection Policy")
       ELSE TypeResult("Unknown", Frac(0, 10), AbsentText, FALSE)

\* whether identify_document_type reaches the query of line 50
type_query_made(content) ==
    content # <<>> /\ matching_signatures(content) = {}

\* mutant: the signature found last in table order is returned
signature_result_last(content) ==
    LET hits == matching_signatures(content)
        n == CHOOSE i \in hits : \A j \in hits : j <= i
    IN TypeResult(DOCUMENT_SIGNATURES[n].doc_type, Frac(9, 10),
                  DOCUMENT_SIGNATURES[n].signature, FALSE)

\* lines 28-30: the first signature of the table that the content contains
signature_result(content) ==
    LET n == First(matching_signatures(content))
    IN TypeResult(DOCUMENT_SIGNATURES[n].doc_type, Frac(9, 10),
                  DOCUMENT_SIGNATURES[n].signature, FALSE)

\* mutant: the emptiness test of lines 20-21 is left out
identify_document_type_no_empty_check(filename, content, outcome) ==
    IF matching_signatures(content) # {} THEN signature_result(content)
    ELSE LET doc_type == IF outcome.raises THEN None
                         ELSE extract_doc_type_from_rag(outcome.text)
         IN IF doc_type # None
            THEN TypeResult(doc_type, Frac(8, 10), AbsentText, TRUE)
            ELSE heuristic_document_type(filename, content)

\* identify_document_type(doc_info), the query engine doing `outcome` if asked
identify_document_type(filename, content, outcome) ==
    IF content = <<>> THEN TypeResult("Unknown", Frac(0, 10), AbsentText, FALSE)
    ELSE IF matching_signatures(content) # {} THEN signature_result(content)
    ELSE LET doc_type == IF outcome.raises THEN None
                         ELSE extract_doc_type_from_rag(outcome.text)
         IN IF doc_type # None
            THEN TypeResult(doc_type, Frac(8, 10), AbsentText, TRUE)
            ELSE heuristic_document_type(filename, content)

-----------------------------------------------------------------------------
(* document_analyzer.py : _extract_issues_from_rag *)

\* tokens that are one member `"key":"value"` of a JSON object (the comma
\* that separates members is part of the token)
J_section == "\"section\":\"directors\""
J_issue == "\"issue\":\"no quorum clause\""
J_sevHigh == "\"severity\":\"High\""
J_sevCritical == "\"severity\":\"Critical\""

JsonMembers ==
    {[tok |-> J_section, key |-> "section", val |-> <<"directors">>],
     [tok |-> J_issue, key |-> "issue", val |-> <<"no", "quorum", "clause">>],
     [tok |-> J_sevHigh, key |-> "severity", val |-> "High"],
     [tok |-> J_sevCritical, key |-> "severity", val |-> "Critical"]}

JsonTokens == {m.tok : m \in JsonMembers}
MemberOf(tok) == CHOOSE m \in JsonMembers : m.tok = tok

JSONDecodeError == [error |-> "JSONDecodeError"]

\* re.findall(r"\{[\s\S]*?\}", rag_response): from each "{" to the first "}"
\* after it, the scan resuming behind that "}"
RECURSIVE json_matches(_, _)
json_matches(text, from) ==
    LET open == IndexFrom(text, {"{"}, from)
        close == IF open = 0 THEN 0 ELSE IndexFrom(text, {"}"}, open + 1)
    IN IF open = 0 \/ close = 0 THEN <<>>
       ELSE <<SubSeq(text, open, close)>> \o json_matches(text, close + 1)

\* json.loads(json_str): the dict of the members (a later key overrides an
\* earlier one), or JSONDecodeError when anything but members and white space
\* stands between the braces
json_loads(json_str) ==
    LET inner == SelectSeq(SubSeq(json_str, 2, Len(json_str) - 1),
                           LAMBDA t : t # NL)
    IN IF \E i \in DOMAIN inner : inner[i] \notin JsonTokens
       THEN JSONDecodeError
       ELSE LET keys == {MemberOf(inner[i]).key : i \in DOMAIN inner}
                last(k) == CHOOSE i \in DOMAIN inner :
                              /\ MemberOf(inner[i]).key = k
                              /\ \A j \in DOMAIN inner :
                                    MemberOf(inner[j]).key = k => j <= i
            IN [k \in keys |-> MemberOf(inner[last(k)]).val]

\* the issue dict as a record; a key the dict lacks is Absent
IssueFromDict(d) ==
    [section |-> d["section"],
     issue |-> d["issue"],
     severity |-> d["severity"],
     suggestion |-> IF "suggestion" \in DOMAIN d THEN d["suggestion"] ELSE AbsentText,
     regulation |-> IF "regulation" \in DOMAIN d THEN d["regulation"] ELSE AbsentText]

\* lines 190-200: one issue per block that parses and has section and issue
RECURSIVE json_issues(_)
json_issues(json_matches_) ==
    IF json_matches_ = <<>> THEN <<>>
    ELSE LET issue == json_loads(Head(json_matches_))
             rest == json_issues(Tail(json_matches_))
         IN IF issue = JSONDecodeError THEN rest
            ELSE IF "section" \in DOMAIN issue /\ "issue" \in DOMAIN issue
                 THEN LET withSeverity ==
                              IF "severity" \notin DOMAIN issue
                              THEN [k \in DOMAIN issue \cup {"severity"} |->
                                       IF k = "severity" THEN "Medium" ELSE issue[k]]
                              ELSE issue
                      IN <<IssueFromDict(withSeverity)>> \o rest
                 ELSE rest

IssueLabels == {"issue:", "problem:", "missing:", "incorrect:"}
SectionLabels == {"section:", "part:", "clause:"}
SeverityLabels == {"severity:", "priority:"}
SuggestionLabels == {"suggestion:", "recommendation:", "fix:"}
RegulationLabels == {"regulation:", "compliance:", "reference:"}

\* first index > i whose token is not a line break (\s* skips them), or 0
RECURSIVE SkipSpace(_, _)
SkipSpace(text, i) ==
    IF i + 1 > Len(text) THEN 0
    ELSE IF text[i + 1] # NL THEN i + 1
    ELSE SkipSpace(text, i + 1)

\* last index of the line that holds index i
LineEnd(text, i) ==
    LET nl == IndexFrom(text, {NL}, i)
    IN IF nl = 0 THEN Len(text) ELSE nl - 1

\* re.findall(r"(?:labels):\s*([^\n]+)", text, re.IGNORECASE): the rest of the
\* line behind each label, the scan resuming behind the captured line
RECURSIVE label_findall(_, _, _)
label_findall(text, labels, from) ==
    LET i == IndexFrom(lower(text), labels, from)
        start == IF i = 0 THEN 0 ELSE SkipSpace(text, i)
    IN IF i = 0 \/ start = 0 THEN <<>>
       ELSE <<SubSeq(text, start, LineEnd(text, start))>>
                \o label_findall(text, labels, LineEnd(text, start) + 1)

\* re.search(pattern, text, re.IGNORECASE).group(1), or default when no match
label_search(text, labels, default) ==
    LET found == label_findall(text, labels, 1)
    IN IF found = <<>> THEN default ELSE found[1]

\* re.search(r"(?:Severity|Priority):\s*(High|Medium|Low)", text, re.IGNORECASE):
\* the value as it is written in the text, or "Medium" when no label is
\* followed by one of the three words
RECURSIVE severity_search(_, _)
severity_search(text, from) ==
    LET i == IndexFrom(lower(text), SeverityLabels, from)
        v == IF i = 0 THEN 0 ELSE SkipSpace(text, i)
    IN IF i = 0 THEN "Medium"
       ELSE IF v # 0 /\ Lower(text[v]) \in {"high", "medium", "low"}
            THEN text[v]
            ELSE severity_search(text, i + 1)

\* mutant: the last section line of the answer is attached, not the first
labeled_issues_last_section(rag_response) ==
    LET issue_matches == label_findall(rag_response, IssueLabels, 1)
        sections == label_findall(rag_response, SectionLabels, 1)
        section == IF sections = <<>> THEN General ELSE sections[Len(sections)]
        severity == severity_search(rag_response, 1)
        suggestion == label_search(rag_response, SuggestionLabels, NoneText)
        regulation == label_search(rag_response, RegulationLabels, <<"ADGM", "Regulations">>)
    IN [n \in DOMAIN issue_matches |->
           [section |-> section,
            issue |-> strip(issue_matches[n]),
            severity |-> severity,
            suggestion |-> suggestion,
            regulation |-> regulation]]

\* lines 203-236: the labeled-line strategy
labeled_issues(rag_response) ==
    LET issue_matches == label_findall(rag_response, IssueLabels, 1)
        section == label_search(rag_response, SectionLabels, General)
        severity == severity_search(rag_response, 1)
        suggestion == label_search(rag_response, SuggestionLabels, NoneText)
        regulation == label_search(rag_response, RegulationLabels, <<"ADGM", "Regulations">>)
    IN [n \in DOMAIN issue_matches |->
           [section |-> section,
            issue |-> strip(issue_matches[n]),
            severity |-> severity,
            suggestion |-> suggestion,
            regulation |-> regulation]]

\* re.split(r'(?<=[.!?])\s+', rag_response): a sentence ends behind a "."
\* that white space follows; the white space (line breaks too) is dropped
RECURSIVE split_sentences(_, _, _)
split_sentences(text, i, current) ==
    IF i > Len(text) THEN <<current>>
    ELSE IF text[i] = DOT /\ i < Len(text)
         THEN LET next == SkipSpace(text, i)
              IN <<Append(current, DOT)>> \o
                 (IF next = 0 THEN <<<<>>>> ELSE split_sentences(text, next, <<>>))
         ELSE split_sentences(text, i + 1, Append(current, text[i]))

\* the lower-case words of the vocabulary that start with
\* in|the|section|regarding|part (line 246)
DiscourseStart ==
    {"in", "incorporating", "incorporation", "incorrect", "incorrect:",
     "initialized", "part", "part:", "regarding", "section", "section:",
     "the"}

\* mutant: every sentence counts as starting with a discourse marker
starts_with_marker_always(sentence) == sentence # <<>>

\* re.match(r'^(in|the|section|regarding|part)', sentence.lower())
starts_with_marker(sentence) ==
    sentence # <<>> /\ Lower(sentence[1]) \in DiscourseStart

IssueKeywords == {"missing", "should", "required", "must", "incorrect", "issue"}
HighWords == {"critical", "serious", "major", "high"}
LowWords == {"minor", "small", "low"}

\* any(k in sentence.lower() for k in keys)
any_in(sentence, keys) ==
    \E k \in keys : Contains(lower(sentence), <<k>>)

\* lines 247-250: the first expected section the sentence mentions, or none
mentioned_section(sentence, section_names) ==
    LET hits == {n \in DOMAIN section_names :
                    ContainsIgnoreCase(sentence, section_names[n])}
    IN IF hits = {} THEN NoneText
       ELSE section_names[CHOOSE n \in hits : \A m \in hits : n <= m]

\* mutant: the diminutives are looked for before the intensifiers
sentence_severity_low_first(sentence) ==
    IF any_in(sentence, LowWords) THEN "Low"
    ELSE IF any_in(sentence, HighWords) THEN "High"
    ELSE "Medium"

\* lines 257-261: the severity of an issue sentence
sentence_severity(sentence) ==
    IF any_in(sentence, HighWords) THEN "High"
    ELSE IF any_in(sentence, LowWords) THEN "Low"
    ELSE "Medium"

\* lines 244-269: the sentence loop, current_section carried along
RECURSIVE sentence_issues(_, _, _)
sentence_issues(sentences, section_names, current_section) ==
    IF sentences = <<>> THEN <<>>
    ELSE LET sentence == Head(sentences)
             mentioned == mentioned_section(sentence, section_names)
             section_now == IF starts_with_marker(sentence) /\ mentioned # NoneText
                            THEN mentioned
                            ELSE current_section
             severity == sentence_severity(sentence)
             rest == sentence_issues(Tail(sentences), section_names, section_now)
         IN IF any_in(sentence, IssueKeywords)
            THEN <<[section |-> IF section_now # NoneText THEN section_now ELSE General,
                    issue |-> strip(sentence),
                    severity |-> severity,
                    suggestion |-> NoneText,
                    regulation |-> <<"ADGM", "Regulations">>]>> \o rest
            ELSE rest

\* mutant: a block that does not parse ends the scan of the blocks
strategy_json_stops_at_bad_block(rag_response) ==
    LET blocks == json_matches(rag_response, 1)
        bad == {i \in DOMAIN blocks : json_loads(blocks[i]) = JSONDecodeError}
    IN json_issues(IF bad = {} THEN blocks
                   ELSE SubSeq(blocks, 1, (CHOOSE i \in bad : \A j \in bad : i <= j) - 1))

\* the three strategies, each on the whole answer
strategy_json(rag_response) == json_issues(json_matches(rag_response, 1))
strategy_labeled(rag_response) == labeled_issues(rag_response)
strategy_sentences(rag_response, section_names) ==
    sentence_issues(split_sentences(rag_response, 1, <<>>), section_names, NoneText)

\* mutant: the labeled-line strategy runs whether or not blocks were found
extract_issues_from_rag_nogate(rag_response, doc_type, section_names) ==
    LET issues1 == strategy_json(rag_response)
        issues2 == issues1 \o strategy_labeled(rag_response)
    IN IF issues2 # <<>> THEN issues2
       ELSE strategy_sentences(rag_response, section_names)

\* _extract_issues_from_rag: `if not issues:` guards strategies 2 and 3
extract_issues_from_rag(rag_response, doc_type, section_names) ==
    LET issues1 == strategy_json(rag_response)
        issues2 == IF issues1 = <<>> THEN strategy_labeled(rag_response) ELSE issues1
    IN IF issues2 = <<>> THEN strategy_sentences(rag_response, section_names)
       ELSE issues2

\* what rag_engine.query(query) does for the caller: it returns a text
\* (possibly empty) or raises
Answer(text) == [raises |-> FALSE, text |-> text]
Raises == [raises |-> TRUE, text |-> <<>>]

\* _analyze_with_rag: try / except Exception around the query and extraction
analyze_with_rag(outcome, doc_type, section_names) ==
    IF outcome.raises THEN <<>>
    ELSE IF outcome.text # <<>>
         THEN extract_issues_from_rag(outcome.text, doc_type, section_names)
         ELSE <<>>

UnidentifiedIssue ==
    [section |-> General,
     issue |-> <<"Unable", "to", "identify", "document", "type">>,
     severity |-> "High", suggestion |-> AbsentText, regulation |-> AbsentText]

ManualReviewIssue ==
    [section |-> General,
     issue |-> <<"Document", "analysis", "completed", "but", "no", "specific",
                 "issues", "were", "identified", DOT, "Recommend", "manual",
                 "review", DOT>>,
     severity |-> "Low", suggestion |-> AbsentText, regulation |-> AbsentText]

\* mutant: an empty extraction is returned as it is
analyze_document_nofallback(content, section_names, doc_type, outcome) ==
    IF content = <<>> \/ doc_type = "Unknown"
    THEN <<UnidentifiedIssue>>
    ELSE analyze_with_rag(outcome, doc_type, section_names)

\* analyze_document(doc_info, doc_type_info)
analyze_document(content, section_names, doc_type, outcome) ==
    IF content = <<>> \/ doc_type = "Unknown"
    THEN <<UnidentifiedIssue>>
    ELSE LET issues == analyze_with_rag(outcome, doc_type, section_names)
         IN IF issues = <<>> THEN <<ManualReviewIssue>> ELSE issues

-----------------------------------------------------------------------------
(* checklist_verifier.py : identify_process and its helpers *)

COMMA == ","    \* closes the word before it, like "."

\* document type and process labels as the words they are made of
Words(label) ==
    CASE label = "Articles of Association" -> <<"Articles", "of", "Association">>
      [] label = "Memorandum of Association" -> <<"Memorandum", "of", "Association">>
      [] label = "Board Resolution" -> <<"Board", "Resolution">>
      [] label = "Shareholder Resolution" -> <<"Shareholder", "Resolution">>
      [] label = "Employment Contract" -> <<"Employment", "Contract">>
      [] label = "UBO Declaration" -> <<"UBO", "Declaration">>
      [] label = "Data Protection Policy" -> <<"Data", "Protection", "Policy">>
      [] label = "Register of Members" -> <<"Register", "of", "Members">>
      [] label = "Register of Directors" -> <<"Register", "of", "Directors">>
      [] label = "Annual Accounts" -> <<"Annual", "Accounts">>
      [] label = "Company Incorporation" -> <<"Company", "Incorporation">>
      [] label = "Branch Registration" -> <<"Branch", "Registration">>
      [] label = "Employment Setup" -> <<"Employment", "Setup">>
      [] label = "Annual Compliance" -> <<"Annual", "Compliance">>
      [] label = "Corporate Governance Update" -> <<"Corporate", "Governance", "Update">>
      [] label = "Branch Establishment" -> <<"Branch", "Establishment">>
      [] label = "Data Protection Compliance" -> <<"Data", "Protection", "Compliance">>
      [] label = "Data Protection" -> <<"Data", "Protection">>
      [] OTHER -> <<label>>

\* lines 54-61
processes ==
    <<"Company Incorporation", "Employment Setup", "Annual Compliance",
      "Corporate Governance Update", "Branch Establishment",
      "Data Protection Compliance">>

\* a.lower() in b.lower() or b.lower() in a.lower()  (lines 99 and 171)
either_contains(a, b) == ContainsIgnoreCase(a, b) \/ ContainsIgnoreCase(b, a)

RequiredWords == {"required", "necessary", "essential", "needed"}

\* the first index >= from at which (?:required|...|must have|needed) ends, or 0
RECURSIVE required_index(_, _)
required_index(low, from) ==
    IF from > Len(low) THEN 0
    ELSE IF \/ \E w \in RequiredWords : WordEnds(low[from], w)
            \/ (from > 1 /\ WordEnds(low[from - 1], "must") /\ low[from] = "have")
         THEN from
         ELSE required_index(low, from + 1)

\* the tokens that do not begin with a letter
NoLetterStart == {NL, DOT, COMMA, "-", "{", "}"} \cup JsonTokens
DocumentsWords == {"documents", "documents:", "document", "document:"}

\* the words of the vocabulary with at most 5 characters, with their length
ShortWordLength ==
    {<<",", 1>>, <<"-", 1>>, <<".docx", 5>>, <<".txt", 4>>, <<"1", 1>>,
     <<"A", 1>>, <<"ADGM", 4>>, <<"About", 5>>, <<"BOARD", 5>>,
     <<"Board", 5>>, <<"DOCX", 4>>, <<"Data", 4>>, <<"Error", 5>>,
     <<"Fix:", 4>>, <<"Form", 4>>, <<"Gone", 4>>, <<"High", 4>>, <<"I", 1>>,
     <<"Looks", 5>>, <<"Low", 3>>, <<"Must", 4>>, <<"None", 4>>, <<"OF", 2>>,
     <<"PDF", 3>>, <<"RAG", 3>>, <<"See", 3>>, <<"Setup", 5>>, <<"THE", 3>>,
     <<"Terms", 5>>, <<"The", 3>>, <<"This", 4>>, <<"UBO", 3>>, <<"We", 2>>,
     <<"We,", 3>>, <<"a", 1>>, <<"add", 3>>, <<"an", 2>>, <<"and", 3>>,
     <<"apply", 5>>, <<"as", 2>>, <<"b", 1>>, <<"base:", 5>>, <<"being", 5>>,
     <<"below", 5>>, <<"board", 5>>, <<"build", 5>>, <<"built", 5>>,
     <<"but", 3>>, <<"c", 1>>, <<"data", 4>>, <<"date", 4>>, <<"doc", 3>>,
     <<"doc1", 4>>, <<"docx", 4>>, <<"done", 4>>, <<"fine", 4>>,
     <<"fix:", 4>>, <<"for", 3>>, <<"form", 4>>, <<"fully", 5>>, <<"gap", 3>>,
     <<"good", 4>>, <<"have", 4>>, <<"high", 4>>, <<"html", 4>>,
     <<"idle", 4>>, <<"in", 2>>, <<"is", 2>>, <<"issue", 5>>, <<"it", 2>>,
     <<"load", 4>>, <<"low", 3>>, <<"major", 5>>, <<"minor", 5>>,
     <<"must", 4>>, <<"new", 3>>, <<"no", 2>>, <<"none", 4>>, <<"not", 3>>,
     <<"now", 3>>, <<"of", 2>>, <<"ok", 2>>, <<"on", 2>>, <<"owner", 5>>,
     <<"part:", 5>>, <<"pdf", 3>>, <<"ppt", 3>>, <<"pptx", 4>>,
     <<"ready", 5>>, <<"saved", 5>>, <<"seal", 4>>, <<"see", 3>>,
     <<"setup", 5>>, <<"small", 5>>, <<"tell", 4>>, <<"term", 4>>,
     <<"terms", 5>>, <<"text", 4>>, <<"the", 3>>, <<"to", 2>>, <<"txt", 3>>,
     <<"type", 4>>, <<"ubo", 3>>, <<"up", 2>>, <<"we,", 3>>, <<"were", 4>>,
     <<"with", 4>>, <<"xls", 3>>, <<"xlsx", 4>>, <<"year", 4>>, <<"{", 1>>,
     <<"}", 1>>}

\* len(word), where 6 stands for "6 or more"
word_len(tok) ==
    IF \E p \in ShortWordLength : p[1] = tok
    THEN (CHOOSE p \in ShortWordLength : p[1] = tok)[2]
    ELSE 6

\* len(item.strip()) > 5 for an item of words separated by single spaces
RECURSIVE is_long_item(_, _)
is_long_item(item, sofar) ==
    IF sofar > 5 THEN TRUE
    ELSE IF item = <<>> THEN FALSE
    ELSE is_long_item(Tail(item),
                      sofar + word_len(Head(item))
                            + (IF sofar > 0 /\ Head(item) \notin {DOT, COMMA} THEN 1 ELSE 0))

\* re.split(r'[\n,...-]+', section): the items between line breaks, commas
\* and "-" bullets, stripped, those longer than 5 characters kept (lines 83-87)
RECURSIVE split_items(_, _)
split_items(section, current) ==
    LET keep == IF is_long_item(current, 0) THEN <<current>> ELSE <<>>
    IN IF section = <<>> THEN keep
       ELSE IF Head(section) \in {NL, COMMA, "-"}
            THEN keep \o split_items(Tail(section), <<>>)
            ELSE split_items(Tail(section), Append(current, Head(section)))

\* the index at which (?:\n\n|\.\s+[A-Z]) first matches at or after i, as
\* <<start, next>>: the capture ends before start and the scan resumes at
\* next; <<0, 0>> when there is none
RECURSIVE terminator(_, _)
terminator(text, i) ==
    IF i > Len(text) THEN <<0, 0>>
    ELSE IF text[i] = NL /\ i < Len(text) /\ text[i + 1] = NL THEN <<i, i + 2>>
    ELSE IF text[i] = DOT /\ SkipSpace(text, i) # 0
              /\ text[SkipSpace(text, i)] \notin NoLetterStart
         THEN <<i, SkipSpace(text, i) + 1>>
         ELSE terminator(text, i + 1)

\* line 77: re.findall of the required-documents pattern, from index `from`
RECURSIVE doc_sections(_, _)
doc_sections(text, from) ==
    LET low == lower(text)
        k == required_index(low, from)
        d == IF k = 0 THEN 0 ELSE SkipSpace(text, k)
        start == IF d = 0 THEN 0 ELSE SkipSpace(text, d)
    IN IF k = 0 THEN <<>>
       ELSE IF d = 0 \/ low[d] \notin DocumentsWords \/ start = 0
            THEN doc_sections(text, k + 1)
            ELSE LET t == terminator(text, start)
                 IN IF t[1] = 0 THEN doc_sections(text, k + 1)
                    ELSE <<SubSeq(text, start, t[1] - 1)>> \o doc_sections(text, t[2])

\* lines 79-87
extracted_required_docs(rag_response) ==
    LET sections == doc_sections(rag_response, 1)
    IN Concat([n \in DOMAIN sections |-> split_items(sections[n], <<>>)])

\* lines 90-96
default_required_docs(identified_process) ==
    IF identified_process = "Company Incorporation"
    THEN <<Words("Articles of Association"), Words("Memorandum of Association"),
           Words("Board Resolution")>>
    ELSE IF identified_process = "Employment Setup"
    THEN <<Words("Employment Contract")>>
    ELSE IF identified_process = "Annual Compliance"
    THEN <<Words("Annual Accounts"), Words("Board Resolution")>>
    ELSE <<>>

\* mutant: the bonus is added without the cap of 0.9
rag_confidence_uncapped(matched_docs, required) ==
    IF required = 0 THEN Frac(8, 10)
    ELSE Frac(10 * matched_docs + 3 * required, 10 * required)

\* min(0.9, matched / required + 0.3), or min(0.9, 0.5 + 0.3) (lines 99-104)
rag_confidence(matched_docs, required) ==
    IF required = 0 THEN Frac(8, 10)
    ELSE IF 10 * matched_docs + 3 * required > 9 * required THEN Frac(9, 10)
    ELSE Frac(10 * matched_docs + 3 * required, 10 * required)

ProcessResult(process, confidence, required_docs, from_rag) ==
    [process |-> process, confidence |-> confidence,
     required_docs |-> required_docs, from_rag |-> from_rag]

UnknownProcess == ProcessResult("Unknown", Frac(0, 10), <<>>, FALSE)

\* what stands for the None of _extract_process_info_from_rag
NoProcessInfo == ProcessResult(None, Frac(0, 10), <<>>, FALSE)

\* lines 99-108: the result for a process named in the answer
rag_process_result(identified_process, required_docs, document_types) ==
    ProcessResult(identified_process,
                  rag_confidence(
                      Cardinality({n \in DOMAIN document_types :
                          \E r \in DOMAIN required_docs :
                              either_contains(required_docs[r], document_types[n])}),
                      Len(required_docs)),
                  required_docs, TRUE)

\* lines 79-96: the documents listed in the answer, or the process's defaults
required_docs_or_default(extracted, identified_process) ==
    IF extracted = <<>> THEN default_required_docs(identified_process) ELSE extracted

\* the processes whose name occurs in the answer (lines 63-71)
named_processes(rag_response) ==
    {n \in DOMAIN processes : ContainsIgnoreCase(rag_response, Words(processes[n]))}

\* _extract_process_info_from_rag(rag_response, document_types) (lines 48-108)
extract_process_info_from_rag(rag_response, document_types) ==
    IF rag_response = <<>> \/ named_processes(rag_response) = {} THEN NoProcessInfo
    ELSE rag_process_result(
             processes[First(named_processes(rag_response))],
             required_docs_or_default(extracted_required_docs(rag_response),
                                      processes[First(named_processes(rag_response))]),
             document_types)

\* lines 113-120, in the dict's order
process_indicators ==
    <<[process |-> "Company Incorporation",
       indicators |-> <<Words("Articles of Association"),
                        Words("Memorandum of Association"), <<"incorporation">>>>],
      [process |-> "Employment Setup",
       indicators |-> <<Words("Employment Contract"), <<"employment">>>>],
      [process |-> "Annual Compliance",
       indicators |-> <<Words("Annual Accounts"), <<"annual">>>>],
      [process |-> "Corporate Governance Update",
       indicators |-> <<Words("Board Resolution"), Words("Shareholder Resolution"),
                        <<"governance">>>>],
      [process |-> "Branch Establishment",
       indicators |-> <<<<"Branch">>, <<"branch">>>>],
      [process |-> "Data Protection Compliance",
       indicators |-> <<Words("Data Protection"), <<"data", "protection">>>>]>>

\* lines 140-147
fallback_required_docs(process) ==
    CASE process = "Company Incorporation" ->
            <<Words("Articles of Association"), Words("Memorandum of Association"),
              Words("Board Resolution")>>
      [] process = "Employment Setup" -> <<Words("Employment Contract")>>
      [] process = "Annual Compliance" ->
            <<Words("Annual Accounts"), Words("Board Resolution")>>
      [] process = "Corporate Governance Update" ->
            <<Words("Board Resolution"), Words("Shareholder Resolution")>>
      [] process = "Branch Establishment" -> <<Words("Board Resolution")>>
      [] process = "Data Protection Compliance" -> <<Words("Data Protection Policy")>>
      [] OTHER -> <<>>

\* mutant: every matching indicator counts, not every matching document
process_score_per_indicator(n, document_types) ==
    Cardinality({p \in (DOMAIN document_types) \X (DOMAIN process_indicators[n].indicators) :
        ContainsIgnoreCase(document_types[p[1]],
                           process_indicators[n].indicators[p[2]])})

\* lines 124-131: the score of the n-th process
process_score(n, document_types) ==
    Cardinality({d \in DOMAIN document_types :
        \E i \in DOMAIN process_indicators[n].indicators :
            ContainsIgnoreCase(document_types[d], process_indicators[n].indicators[i])})

\* _fallback_process_identification(document_types)
fallback_process_identification(document_types) ==
    LET best == CHOOSE n \in DOMAIN process_indicators :
                   \A m \in DOMAIN process_indicators :
                       \/ process_score(m, document_types) < process_score(n, document_types)
                       \/ (process_score(m, document_types) = process_score(n, document_types)
                           /\ n <= m)
        score == process_score(best, document_types)
    IN IF score = 0 THEN UnknownProcess
       ELSE ProcessResult(process_indicators[best].process,
                          IF 10 * score > 7 * Len(document_types)
                          THEN Frac(7, 10)
                          ELSE Frac(score, Len(document_types)),
                          fallback_required_docs(process_indicators[best].process),
                          FALSE)

\* whether identify_process reaches the query of line 34
process_query_made(document_types) == document_types # <<>>

\* lines 37-46: the answer's process if it names one, else the heuristic
process_info_or_fallback(process_info, document_types) ==
    IF process_info # NoProcessInfo /\ process_info.process # "Unknown"
    THEN process_info
    ELSE fallback_process_identification(document_types)

\* identify_process(document_types), the query engine doing `outcome` if asked
identify_process(document_types, outcome) ==
    IF document_types = <<>> THEN UnknownProcess
    ELSE process_info_or_fallback(
             IF outcome.raises THEN NoProcessInfo
             ELSE extract_process_info_from_rag(outcome.text, document_types),
             document_types)

-----------------------------------------------------------------------------
(* The analysis of one document: inputs and state machine *)

MaxAnswerParts == 3   \* an answer of the model is up to this many fragments

\* rag_engine.py line 439
Sentinel ==
    <<"RAG", "system", "not", "fully", "initialized", DOT, "Please", "ensure",
      "the", "vector", "database", "is", "properly", "built", DOT>>

\* rag_engine.py line 479, for an exception whose text is "connection refused"
ErrorAnswer ==
    <<"Error", "querying", "the", "knowledge", "base:", "connection", "refused">>

\* pieces the generative model's answer is put together from
AnswerFragments ==
    {<<"{", J_section, J_issue, J_sevHigh, "}">>,
     <<"{", J_section, J_issue, "}">>,
     <<"{", J_section, J_issue, J_sevCritical, "}">>,
     <<"{", J_issue, "}">>,
     <<"{", "see", "below", "}">>,
     <<"Issue:", "clause", "absent", NL>>,
     <<"Severity:", "high", NL>>,
     <<"Section:", "Directors", NL>>,
     <<"The", "Directors", "clause", "is", "missing", DOT>>,
     <<"A", "critical", "term", "must", "follow", DOT>>,
     <<"Looks", "fine", DOT>>}

\* pieces of an answer written as labeled lines
LabeledFragments ==
    {<<"Issue:", "clause", "absent", NL>>,
     <<"Problem:", "no", "seal", NL>>,
     <<"incorrect:", "date">>,
     <<"Section:", "Directors", NL>>,
     <<"Clause:", "Quorum", NL>>,
     <<"Severity:", "high", NL>>,
     <<"Severity:", "Critical", NL>>,
     <<"Priority:", "Low", NL>>,
     <<"Fix:", "add", "it", NL, "Reference:", "Companies", "Regulations", NL>>}

\* pieces of an answer written as plain sentences
SentenceFragments ==
    {<<"The", "Directors", "clause", "is", "missing", DOT>>,
     <<"A", "critical", "term", "must", "follow", DOT>>,
     <<"Regarding", "Jurisdiction", DOT>>,
     <<"A", "minor", "issue", "in", "Directors", DOT>>,
     <<"A", "minor", "but", "serious", "gap", "is", "required", DOT>>,
     <<"Terms", "should", "follow", DOT>>}

Answers ==
    {Concat(parts) : parts \in SeqUpTo(AnswerFragments, MaxAnswerParts)}
        \cup {Sentinel, ErrorAnswer}

LabeledAnswers == {Concat(parts) : parts \in SeqUpTo(LabeledFragments, MaxAnswerParts)}

SentenceAnswers == {Concat(parts) : parts \in SeqUpTo(SentenceFragments, MaxAnswerParts)}

QueryOutcomes == {Answer(t) : t \in Answers} \cup {Raises}

LabeledOutcomes == {Answer(t) : t \in LabeledAnswers}

SentenceOutcomes == {Answer(t) : t \in SentenceAnswers}

SomeContent == <<"RESOLUTION", "OF", "THE", "BOARD", NL, "We", "resolve", DOT, NL>>
SectionLists == {<<>>, <<<<"Directors">>>>, <<<<"Jurisdiction">>, <<"Directors">>>>}

NotRun == <<[section |-> General, issue |-> <<"<not run>">>, severity |-> "",
             suggestion |-> AbsentText, regulation |-> AbsentText]>>

AnalyzerIdle ==
    /\ an_pc = "idle"
    /\ an_content = <<>>
    /\ an_sections = <<>>
    /\ an_type = "Unknown"
    /\ an_outcome = Raises
    /\ an_queried = FALSE
    /\ an_issues = NotRun

\* a processed document and its identified type reach the analyzer
AnLoad ==
    /\ an_pc = "idle"
    /\ \E content \in {<<>>, SomeContent}, names \in SectionLists,
          type \in {"Unknown", "Board Resolution"} :
          /\ an_content' = content
          /\ an_sections' = names
          /\ an_type' = type
    /\ an_pc' = "loaded"
    /\ UNCHANGED <<an_outcome, an_queried, an_issues>>
    /\ UNCHANGED notAnalyzer

\* analyze_document(doc_info, doc_type_info), the query engine doing `outcome`
AnAnalyze ==
    /\ an_pc = "loaded"
    /\ \E outcome \in QueryOutcomes :
          /\ an_outcome' = outcome
          /\ an_issues' = analyze_document(an_content, an_sections, an_type, outcome)
    /\ an_queried' = ~(an_content = <<>> \/ an_type = "Unknown")
    /\ an_pc' = "analyzed"
    /\ UNCHANGED <<an_content, an_sections, an_type>>
    /\ UNCHANGED notAnalyzer

\* analyze_document(doc_info, doc_type_info), the model answering in labeled
\* lines
AnAnalyzeLabeled ==
    /\ an_pc = "loaded"
    /\ \E outcome \in LabeledOutcomes :
          /\ an_outcome' = outcome
          /\ an_issues' = analyze_document(an_content, an_sections, an_type, outcome)
    /\ an_queried' = ~(an_content = <<>> \/ an_type = "Unknown")
    /\ an_pc' = "analyzed"
    /\ UNCHANGED <<an_content, an_sections, an_type>>
    /\ UNCHANGED notAnalyzer

\* analyze_document(doc_info, doc_type_info), the model answering in plain
\* sentences
AnAnalyzeSentences ==
    /\ an_pc = "loaded"
    /\ \E outcome \in SentenceOutcomes :
          /\ an_outcome' = outcome
          /\ an_issues' = analyze_document(an_content, an_sections, an_type, outcome)
    /\ an_queried' = ~(an_content = <<>> \/ an_type = "Unknown")
    /\ an_pc' = "analyzed"
    /\ UNCHANGED <<an_content, an_sections, an_type>>
    /\ UNCHANGED notAnalyzer

\* the next document of the batch
AnReset ==
    /\ an_pc = "analyzed"
    /\ an_pc' = "idle"
    /\ an_content' = <<>>
    /\ an_sections' = <<>>
    /\ an_type' = "Unknown"
    /\ an_outcome' = Raises
    /\ an_queried' = FALSE
    /\ an_issues' = NotRun
    /\ UNCHANGED notAnalyzer

-----------------------------------------------------------------------------
(* The type identification of one document: inputs and state machine *)

MaxContentParts == 2   \* a document's content is up to this many fragments

\* pieces the content of an uploaded document is put together from
ContentFragments ==
    {<<"RESOLUTION", "OF", "THE", "BOARD", "OF", "DIRECTORS", NL>>,
     <<"resolution", "of", "the", "board", "of", "directors", NL>>,
     <<"We,", "the", "undersigned", "directors", NL>>,
     <<"Memorandum", "of", "Association", NL>>,
     <<"contract", "of", "employment", "contract", NL>>,
     <<"The", "articles", "apply", DOT, NL>>,
     <<"beneficial", "ownership", "register", NL>>,
     <<"data", "protection", "policy", NL>>,
     <<"General", "terms", NL>>}

Contents ==
    {Concat(parts) : parts \in SeqUpTo(ContentFragments, MaxContentParts)}

Filenames ==
    {<<"doc1", ".docx">>, <<"Board", "Resolution", ".docx">>, <<"employment", ".docx">>}

\* answers of the query engine to the document-type question
TypeAnswers ==
    {<<>>, Sentinel, ErrorAnswer,
     <<"Board", "Resolution">>,
     <<"This", "is", "a", "resolution", DOT>>,
     <<"an", "employment", "agreement">>,
     <<"a", "policy", "on", "data">>,
     <<"I", "cannot", "tell", DOT, NL, NL, "Sources:", NL,
       "-", "Shareholder", "Resolution", "(https://www.adgm.com/setting-up)", NL>>}

TypeOutcomes == {Answer(t) : t \in TypeAnswers} \cup {Raises}

NoTypeResult == TypeResult("<not run>", Frac(0, 10), AbsentText, FALSE)

TypeIdle ==
    /\ ty_pc = "idle"
    /\ ty_filename = <<>>
    /\ ty_content = <<>>
    /\ ty_outcome = Raises
    /\ ty_queried = FALSE
    /\ ty_result = NoTypeResult

\* a processed document reaches the analyzer
TyLoad ==
    /\ ty_pc = "idle"
    /\ cv_pc = "idle"
    /\ \E filename \in Filenames, content \in Contents :
          /\ ty_filename' = filename
          /\ ty_content' = content
    /\ ty_pc' = "loaded"
    /\ UNCHANGED <<ty_outcome, ty_queried, ty_result>>
    /\ UNCHANGED notType

\* identify_document_type(doc_info) returns without asking the query engine
TyIdentifyDirect ==
    /\ ty_pc = "loaded"
    /\ ~type_query_made(ty_content)
    /\ ty_result' = identify_document_type(ty_filename, ty_content, Raises)
    /\ ty_queried' = FALSE
    /\ ty_pc' = "identified"
    /\ UNCHANGED <<ty_filename, ty_content, ty_outcome>>
    /\ UNCHANGED notType

\* identify_document_type(doc_info) asks the query engine, which does `outcome`
TyIdentifyQuery ==
    /\ ty_pc = "loaded"
    /\ type_query_made(ty_content)
    /\ \E outcome \in TypeOutcomes :
          /\ ty_outcome' = outcome
          /\ ty_result' = identify_document_type(ty_filename, ty_content, outcome)
    /\ ty_queried' = TRUE
    /\ ty_pc' = "identified"
    /\ UNCHANGED <<ty_filename, ty_content>>
    /\ UNCHANGED notType

\* the next document
TyReset ==
    /\ ty_pc = "identified"
    /\ ty_pc' = "idle"
    /\ ty_filename' = <<>>
    /\ ty_content' = <<>>
    /\ ty_outcome' = Raises
    /\ ty_queried' = FALSE
    /\ ty_result' = NoTypeResult
    /\ UNCHANGED notType

-----------------------------------------------------------------------------
(* The process identification of one batch: inputs and state machine *)

MaxDocTypes == 2   \* a batch has up to this many identified document types

\* the types identify_document_type gave the documents of the batch
BatchTypes ==
    {Words("Employment Contract"), Words("Board Resolution"),
     Words("Articles of Association"), Words("Data Protection Policy"),
     Words("Unknown")}

TypeLists == SeqUpTo(BatchTypes, MaxDocTypes)

\* answers of the query engine to the process question
ProcessAnswers ==
    {<<>>, Sentinel, ErrorAnswer,
     <<"This", "is", "an", "employment", "setup", DOT>>,
     <<"Company", "incorporation", DOT, "Required", "documents:", NL,
       "-", "Articles", "of", "Association", NL,
       "-", "UBO", "Declaration", NL, NL>>,
     <<"Branch", "Establishment", DOT, "The", "needed", "documents:",
       "Board", "Resolution", COMMA, "form", DOT, "See", "below">>,
     <<"The", "governance", "is", "being", "updated">>,
     <<"Annual", "compliance", "but", "no", "documents", "required">>,
     <<"Must", "have", "documents", "Employment", "Contract", COMMA, "UBO",
       COMMA, "Board", "Resolution", NL, NL>>,
     <<"Essential", "document:", "annual", "accounts", DOT, "see", "below", DOT>>,
     <<"necessary", NL, "documents", NL, "data", "protection", "policy",
       "-", "form", NL, NL>>,
     <<"data", "protection", "compliance", DOT>>,
     <<"Employment", "Setup", DOT, "Required", "documents:", "contract", COMMA,
       "board", "resolution", "of", "directors", NL, NL>>,
     <<"Corporate", "Governance", "Update", NL>>}

ProcessOutcomes == {Answer(t) : t \in ProcessAnswers} \cup {Raises}

NoProcessResult == ProcessResult("<not run>", Frac(0, 10), <<>>, FALSE)

VerifierIdle ==
    /\ cv_pc = "idle"
    /\ cv_types = <<>>
    /\ cv_outcome = Raises
    /\ cv_queried = FALSE
    /\ cv_result = NoProcessResult
    /\ cv_checked = NoProcessResult
    /\ cv_missing = <<>>

\* the types of the batch's documents reach the verifier (streamlit_app.py
\* line 150), once the last document's type has been identified
CvLoad ==
    /\ cv_pc = "idle"
    /\ ty_pc = "idle"
    /\ \E document_types \in TypeLists : cv_types' = document_types
    /\ cv_pc' = "loaded"
    /\ UNCHANGED <<cv_outcome, cv_queried, cv_result, cv_checked, cv_missing>>
    /\ UNCHANGED notVerifier

\* identify_process(document_types) returns without asking the query engine
CvIdentifyDirect ==
    /\ cv_pc = "loaded"
    /\ ~process_query_made(cv_types)
    /\ cv_result' = identify_process(cv_types, Raises)
    /\ cv_queried' = FALSE
    /\ cv_pc' = "identified"
    /\ UNCHANGED <<cv_types, cv_outcome, cv_checked, cv_missing>>
    /\ UNCHANGED notVerifier

\* identify_process(document_types) asks the query engine, which does `outcome`
CvIdentifyQuery ==
    /\ cv_pc = "loaded"
    /\ process_query_made(cv_types)
    /\ \E outcome \in ProcessOutcomes :
          /\ cv_outcome' = outcome
          /\ cv_result' = identify_process(cv_types, outcome)
    /\ cv_queried' = TRUE
    /\ cv_pc' = "identified"
    /\ UNCHANGED <<cv_types, cv_checked, cv_missing>>
    /\ UNCHANGED notVerifier

\* the next batch
CvReset ==
    /\ cv_pc = "checked"
    /\ cv_pc' = "idle"
    /\ cv_types' = <<>>
    /\ cv_outcome' = Raises
    /\ cv_queried' = FALSE
    /\ cv_result' = NoProcessResult
    /\ cv_checked' = NoProcessResult
    /\ cv_missing' = <<>>
    /\ UNCHANGED notVerifier

-----------------------------------------------------------------------------
(* rag_engine.py : RAGEngine construction and query *)

MaxSourceDocs == 3   \* the QA chain retrieves up to this many source documents

\* _setup_retriever (lines 415-433): whether self.qa_chain is set afterwards;
\* RetrievalQA.from_chain_type succeeds iff chain_ok
setup_retriever(vectorstore, llm, chain_ok) ==
    [qa_chain |-> vectorstore /\ llm /\ chain_ok,
     raises |-> vectorstore /\ llm /\ ~chain_ok]

EngineState(llm, vectorstore, qa_chain, failed) ==
    [llm |-> llm, vectorstore |-> vectorstore, qa_chain |-> qa_chain,
     failed |-> failed]

\* collect_and_create_vectorstore (lines 99-287) on an engine that holds
\* `vectorstore` and `qa_chain`: a new store and chain when documents were
\* collected, nothing otherwise
collect_and_create_vectorstore(llm, vectorstore, qa_chain, collected, chain_ok) ==
    IF collected
    THEN EngineState(llm, TRUE, setup_retriever(TRUE, llm, chain_ok).qa_chain,
                     setup_retriever(TRUE, llm, chain_ok).raises)
    ELSE EngineState(llm, vectorstore, qa_chain, FALSE)

\* load_or_create_vectorstore (lines 79-97); snapshot is "none", "corrupt" or
\* "good" (index.faiss missing, unreadable, readable)
load_or_create_vectorstore(llm, snapshot, load_chain_ok, collected, chain_ok) ==
    IF snapshot = "good" /\ ~setup_retriever(TRUE, llm, load_chain_ok).raises
    THEN EngineState(llm, TRUE, setup_retriever(TRUE, llm, load_chain_ok).qa_chain, FALSE)
    ELSE collect_and_create_vectorstore(llm, snapshot = "good", FALSE,
                                        collected, chain_ok)

\* RAGEngine.__init__ (lines 30-59)
engine_init(llm_ok, snapshot, load_chain_ok, collected, chain_ok) ==
    load_or_create_vectorstore(llm_ok, snapshot, load_chain_ok, collected, chain_ok)

\* the guard of query (line 437)
query_degraded_no_chain_check(vectorstore, qa_chain, llm) == ~vectorstore \/ ~llm
query_degraded(vectorstore, qa_chain, llm) == ~vectorstore \/ ~qa_chain \/ ~llm

SourceDoc(document_type, source) == [document_type |-> document_type, source |-> source]

\* one "- {doc_type} ({source})\n" line (line 471)
source_line(doc) == <<"-">> \o doc.document_type \o <<doc.source, NL>>

\* lines 462-471: one line per distinct source_info, in order of first occurrence
RECURSIVE sources_lines(_, _)
sources_lines(source_docs, unique_sources) ==
    IF source_docs = <<>> THEN <<>>
    ELSE IF source_line(Head(source_docs)) \in unique_sources
         THEN sources_lines(Tail(source_docs), unique_sources)
         ELSE source_line(Head(source_docs))
              \o sources_lines(Tail(source_docs),
                               unique_sources \cup {source_line(Head(source_docs))})

\* mutant: a line for every retrieved context, repeated citations included
answer_with_sources_undeduplicated(result, source_docs) ==
    IF source_docs # <<>>
    THEN result \o <<NL, NL, "Sources:", NL>>
         \o Concat([n \in DOMAIN source_docs |-> source_line(source_docs[n])])
    ELSE result

\* lines 455-475
answer_with_sources(result, source_docs) ==
    IF source_docs # <<>>
    THEN result \o <<NL, NL, "Sources:", NL>> \o sources_lines(source_docs, {})
    ELSE result

ChainAnswer(result, source_docs) ==
    [raises |-> FALSE, result |-> result, source_documents |-> source_docs]

ChainRaises == [raises |-> TRUE, result |-> <<>>, source_documents |-> <<>>]

\* line 477: `except Exception` catches whatever the QA chain raised
caught_by_query(chain) == chain.raises

\* whether an exception leaves query
query_raises(vectorstore, qa_chain, llm, chain) ==
    /\ ~query_degraded(vectorstore, qa_chain, llm)
    /\ (~qa_chain \/ chain.raises)
    /\ ~(~qa_chain \/ caught_by_query(chain))

\* whether query reaches the call of self.qa_chain (line 452)
chain_invoked(vectorstore, qa_chain, llm) ==
    ~query_degraded(vectorstore, qa_chain, llm) /\ qa_chain

\* query(question) (lines 435-479): the string returned; calling a qa_chain
\* that is None raises a TypeError, which the except clause turns into text
query(vectorstore, qa_chain, llm, chain) ==
    IF query_degraded(vectorstore, qa_chain, llm) THEN Sentinel
    ELSE IF ~qa_chain \/ chain.raises THEN ErrorAnswer
    ELSE answer_with_sources(chain.result, chain.source_documents)

Snapshots == {"none", "corrupt", "good"}

RetrievedDocs ==
    {SourceDoc(<<"Templates">>, "(https://www.adgm.com/setting-up)"),
     SourceDoc(<<"Shareholder", "Resolution">>, "(https://www.adgm.com/setting-up)"),
     SourceDoc(<<"Unknown">>, "(Unknown)")}

ChainResults == {<<>>, <<"Board", "Resolution">>, <<"I", "cannot", "tell", DOT>>}

ChainOutcomes ==
    {ChainAnswer(r, d) : r \in ChainResults, d \in SeqUpTo(RetrievedDocs, MaxSourceDocs)}
        \cup {ChainRaises}

EngineIdle ==
    /\ en_pc = "none"
    /\ en_llm = FALSE
    /\ en_vectorstore = FALSE
    /\ en_qa_chain = FALSE
    /\ en_chain = ChainRaises
    /\ en_invoked = FALSE
    /\ en_raised = FALSE
    /\ en_answer = AbsentText

\* load_components() builds a RAGEngine (streamlit_app.py line 16), at the
\* start and again after "Rebuild Knowledge Base" cleared the cache (line 58)
EnConstruct ==
    /\ \E llm_ok \in BOOLEAN, snapshot \in Snapshots, load_chain_ok \in BOOLEAN,
          collected \in BOOLEAN, chain_ok \in BOOLEAN :
          LET e == engine_init(llm_ok, snapshot, load_chain_ok, collected, chain_ok)
          IN /\ en_pc' = IF e.failed THEN "failed" ELSE "ready"
             /\ en_llm' = (e.llm /\ ~e.failed)
             /\ en_vectorstore' = (e.vectorstore /\ ~e.failed)
             /\ en_qa_chain' = (e.qa_chain /\ ~e.failed)
    /\ en_chain' = ChainRaises
    /\ en_invoked' = FALSE
    /\ en_raised' = FALSE
    /\ en_answer' = AbsentText
    /\ UNCHANGED notEngine

\* rag_engine.query(question) on a constructed engine; the QA chain, if it
\* is invoked, does `chain`
EnQuery ==
    /\ en_pc \in {"ready", "answered"}
    /\ \E chain \in ChainOutcomes :
          /\ en_chain' = IF chain_invoked(en_vectorstore, en_qa_chain, en_llm)
                         THEN chain ELSE ChainRaises
          /\ en_answer' = query(en_vectorstore, en_qa_chain, en_llm, chain)
          /\ en_raised' = query_raises(en_vectorstore, en_qa_chain, en_llm, chain)
    /\ en_invoked' = chain_invoked(en_vectorstore, en_qa_chain, en_llm)
    /\ en_pc' = "answered"
    /\ UNCHANGED <<en_llm, en_vectorstore, en_qa_chain>>
    /\ UNCHANGED notEngine

-----------------------------------------------------------------------------
(* checklist_verifier.py : _calculate_compliance_percentage *)

MaxMissing == 7   \* longest missing_docs list explored
MaxIssues == 4    \* longest issues_found list explored

MissingNames == {"UBO Declaration"}

\* the severity values an issue dict can carry when it reaches the scorer
ScorerSeverities == {"High", "Medium", "Low", "high", Absent}

\* issue.get("severity"): the scorer reads nothing else of an issue
IssueOf(sev) == [severity |-> sev]

\* sum(1 for issue in issues_found if issue.get("severity") == sev)
severity_count(issues, sev) ==
    Cardinality({i \in DOMAIN issues : issues[i].severity = sev})

\* mutant: a missing document costs 10 points instead of 15
compliance_before_clamp_missing10(missing_docs, issues_found) ==
    100 - Len(missing_docs) * 10
        - severity_count(issues_found, "High") * 5
        - severity_count(issues_found, "Medium") * 2
        - severity_count(issues_found, "Low") * 1

\* mutant: a Low issue costs 2 points, a High issue 4
compliance_before_clamp_weights(missing_docs, issues_found) ==
    100 - Len(missing_docs) * 15
        - severity_count(issues_found, "High") * 4
        - severity_count(issues_found, "Medium") * 2
        - severity_count(issues_found, "Low") * 2

\* the local `compliance` after all deductions (line 248), before the clamp
compliance_before_clamp(missing_docs, issues_found) ==
    LET afterMissing == IF missing_docs # <<>>
                        THEN 100 - Len(missing_docs) * 15
                        ELSE 100
        high_severity_issues == severity_count(issues_found, "High")
        medium_severity_issues == severity_count(issues_found, "Medium")
        low_severity_issues == severity_count(issues_found, "Low")
    IN afterMissing - high_severity_issues * 5
                    - medium_severity_issues * 2
                    - low_severity_issues * 1

\* return max(0, min(100, compliance))
calculate_compliance_percentage(missing_docs, issues_found) ==
    Max(0, Min(100, compliance_before_clamp(missing_docs, issues_found)))

\* nothing collected, nothing scored; `compliance = 100.0` is line 235
ScoreInit ==
    /\ sc_pc = "collect"
    /\ sc_missing = <<>>
    /\ sc_issues = <<>>
    /\ sc_compliance = 100
    /\ sc_result = 100

\* the caller collects one more missing required document
ScAddMissing ==
    /\ Len(sc_missing) < MaxMissing
    /\ \E d \in MissingNames : sc_missing' = Append(sc_missing, d)
    /\ sc_pc' = "collect"
    /\ UNCHANGED <<sc_compliance, sc_result>>
    /\ UNCHANGED sc_issues
    /\ UNCHANGED notScore

\* the caller collects one more issue
ScAddIssue ==
    /\ Len(sc_issues) < MaxIssues
    /\ \E s \in ScorerSeverities : sc_issues' = Append(sc_issues, IssueOf(s))
    /\ sc_pc' = "collect"
    /\ UNCHANGED <<sc_compliance, sc_result>>
    /\ UNCHANGED sc_missing
    /\ UNCHANGED notScore

\* _calculate_compliance_percentage(document_types, missing_docs, issues_found)
ScCalculate ==
    /\ sc_pc = "collect"
    /\ sc_pc' = "scored"
    /\ sc_compliance' = compliance_before_clamp(sc_missing, sc_issues)
    /\ sc_result' = calculate_compliance_percentage(sc_missing, sc_issues)
    /\ UNCHANGED <<sc_missing, sc_issues>>
    /\ UNCHANGED notScore

ScoreIdle == ScoreInit

-----------------------------------------------------------------------------
(* document_processor.py : process_document *)

\* a file on disk: whether it is there, whether python-docx can open it, and
\* the paragraphs and the table-cell paragraphs python-docx finds in it
File(exists, parses, paragraphs, cells) ==
    [exists |-> exists, parses |-> parses, paragraphs |-> paragraphs, cells |-> cells]

\* the words of a paragraph text
paragraph_words(text) ==
    CASE text = "RESOLUTION OF THE BOARD OF DIRECTORS" ->
            <<"RESOLUTION", "OF", "THE", "BOARD", "OF", "DIRECTORS">>
      [] text = "We resolve as follows" -> <<"We", "resolve", "as", "follows">>
      [] text = "General terms" -> <<"General", "terms">>
      [] text = "DIRECTORS" -> <<"DIRECTORS">>
      [] text = "Quorum" -> <<"Quorum">>
      [] text = "Article 1" -> <<"Article", "1">>
      [] OTHER -> <<>>

\* lines 28-39: every paragraph's text and every table-cell paragraph's text,
\* each followed by "\n"
document_content(file) ==
    Concat([n \in DOMAIN file.paragraphs |->
               paragraph_words(file.paragraphs[n].text) \o <<NL>>])
    \o Concat([n \in DOMAIN file.cells |-> paragraph_words(file.cells[n]) \o <<NL>>])

ErrorInfo(error) ==
    [error |-> error, filename |-> <<>>, content |-> <<>>, sections |-> <<>>]

DocInfo(filename, content, sections) ==
    [error |-> None, filename |-> filename, content |-> content, sections |-> sections]

\* file_path.lower().endswith('.docx') (line 23); the extension is the last
\* token of a path
is_docx(file_path) == file_path # <<>> /\ Lower(file_path[Len(file_path)]) = ".docx"

\* mutant: a file python-docx cannot open is passed on as an empty document
process_document_keeps_corrupt(file_path, file) ==
    IF ~file.exists THEN ErrorInfo("File not found")
    ELSE IF ~is_docx(file_path) THEN ErrorInfo("Unsupported file type")
    ELSE DocInfo(file_path, document_content(file),
                 extract_document_sections(file.paragraphs))

\* process_document(file_path) (lines 14-54); every exception is caught and
\* returned as an error object (lines 53-54)
process_document(file_path, file) ==
    IF ~file.exists THEN ErrorInfo("File not found")
    ELSE IF ~is_docx(file_path) THEN ErrorInfo("Unsupported file type")
    ELSE IF ~file.parses THEN ErrorInfo("Error processing document")
    ELSE DocInfo(file_path, document_content(file),
                 extract_document_sections(file.paragraphs))

-----------------------------------------------------------------------------
(* checklist_verifier.py : check_missing_documents, generate_process_summary *)

\* mutant: only a type equal to the required name counts as submitted
check_missing_documents_exact_only(document_types, process_info) ==
    IF process_info = NoProcessInfo \/ process_info.process = "Unknown" THEN <<>>
    ELSE SelectSeq(process_info.required_docs,
                   LAMBDA required :
                       ~\E d \in DOMAIN document_types :
                           lower(required) = lower(document_types[d]))

\* check_missing_documents(document_types, process_info) (lines 156-178):
\* the required documents, in their order, that no submitted type matches;
\* NoProcessInfo stands for a process_info that is None
check_missing_documents(document_types, process_info) ==
    IF process_info = NoProcessInfo \/ process_info.process = "Unknown" THEN <<>>
    ELSE SelectSeq(process_info.required_docs,
                   LAMBDA required :
                       ~\E d \in DOMAIN document_types :
                           either_contains(required, document_types[d]))

\* check_missing_documents(document_types, process_info) for the batch: with
\* the identification just made (streamlit_app.py line 153), or without one
CvCheckMissing ==
    /\ cv_pc = "identified"
    /\ \E process_info \in {cv_result, NoProcessInfo} :
          /\ cv_checked' = process_info
          /\ cv_missing' = check_missing_documents(cv_types, process_info)
    /\ cv_pc' = "checked"
    /\ UNCHANGED <<cv_types, cv_outcome, cv_queried, cv_result>>
    /\ UNCHANGED notVerifier

\* lines 221-230
fallback_description(process_name) ==
    CASE process_name = "Company Incorporation" ->
            <<"The", "process", "of", "incorporating", "a", "new", "company",
              "in", "ADGM", DOT>>
      [] process_name = "Employment Setup" ->
            <<"Setting", "up", "employment", "documentation", "for", "ADGM",
              "companies", DOT>>
      [] process_name = "Annual Compliance" ->
            <<"Annual", "filing", "and", "compliance", "requirements", "for",
              "ADGM", "companies", DOT>>
      [] process_name = "Corporate Governance Update" ->
            <<"Updating", "corporate", "governance", "documentation", DOT>>
      [] process_name = "Branch Establishment" ->
            <<"Establishing", "a", "branch", "office", "in", "ADGM", DOT>>
      [] process_name = "Data Protection Compliance" ->
            <<"Ensuring", "compliance", "with", "ADGM", "Data", "Protection",
              "Regulations", DOT>>
      [] OTHER -> <<"ADGM", "regulatory", "process", DOT>>

\* response.split('.')[0].strip() + '.' (lines 211-213), for a response whose
\* only full stops are "." tokens
first_sentence(response) ==
    LET dot == IndexFrom(response, {DOT}, 1)
    IN strip(IF dot = 0 THEN response ELSE SubSeq(response, 1, dot - 1)) \o <<DOT>>

\* _get_process_description(process_name), the query engine doing `outcome`
get_process_description(process_name, outcome) ==
    IF ~outcome.raises /\ outcome.text # <<>>
    THEN first_sentence(outcome.text)
    ELSE fallback_description(process_name)

\* generate_process_summary(document_types, issues_found) (lines 180-201);
\* process_info is what its call of identify_process returned (line 183),
\* and the query for the description does `description_outcome`
\* (missing_documents: the empty sequence stands for the None of line 195)
generate_process_summary(document_types, issues_found, process_info, description_outcome) ==
    [process |-> process_info.process,
     process_description |->
         get_process_description(process_info.process, description_outcome),
     documents_uploaded |-> Len(document_types),
     required_documents |-> Len(process_info.required_docs),
     missing_documents |-> check_missing_documents(document_types, process_info),
     issues_count |-> Len(issues_found),
     critical_issues_count |-> severity_count(issues_found, "High"),
     compliance_percentage |->
         calculate_compliance_percentage(
             check_missing_documents(document_types, process_info), issues_found)]

-----------------------------------------------------------------------------
(* streamlit_app.py : one analysis run (lines 109-217) *)

MaxUploads == 2   \* a batch has up to this many uploaded files

Upload(name, file) == [name |-> name, file |-> file]

ResolutionFile ==
    File(TRUE, TRUE,
         <<Paragraph(FALSE, FALSE, "RESOLUTION OF THE BOARD OF DIRECTORS"),
           Paragraph(FALSE, FALSE, "We resolve as follows")>>,
         <<"Quorum">>)

TermsFile == File(TRUE, TRUE, <<Paragraph(FALSE, FALSE, "General terms")>>, <<>>)

\* a .docx that python-docx cannot open
CorruptFile == File(TRUE, FALSE, <<>>, <<>>)

\* a saved file that is gone again when process_document looks for it
MissingFile == File(FALSE, FALSE, <<>>, <<>>)

Uploads ==
    {Upload(<<"a", ".docx">>, ResolutionFile),
     Upload(<<"a", ".docx">>, TermsFile),
     Upload(<<"b", ".docx">>, TermsFile),
     Upload(<<"b", ".docx">>, CorruptFile),
     Upload(<<"a", ".docx">>, MissingFile),
     Upload(<<"c", ".txt">>, TermsFile)}

Batches == SeqUpTo(Uploads, MaxUploads) \ {<<>>}

\* what the query engine does in a run, by question
RunTypeOutcomes == {Answer(<<"Board", "Resolution">>), Raises}
RunProcessOutcomes == {Answer(<<"Employment", "Setup">>), Raises}
RunAnalysisOutcomes ==
    {Answer(<<"{", J_section, J_issue, J_sevHigh, "}">>), Answer(<<"Looks", "fine", DOT>>)}
RunDescriptionOutcomes == {Answer(Sentinel), Raises}

\* lines 116-121: each upload is written to temp_dir/<name>, a later upload
\* of the same name replacing the earlier file
saved_disk(uploads) ==
    [path \in {uploads[n].name : n \in DOMAIN uploads} |->
        uploads[CHOOSE n \in DOMAIN uploads :
                    /\ uploads[n].name = path
                    /\ \A m \in DOMAIN uploads : uploads[m].name = path => m <= n].file]

\* doc_types[filename] = type (line 144): a new key goes to the end of the
\* dict, an existing key keeps its place
set_doc_type(doc_types, filename, type) ==
    IF \E n \in DOMAIN doc_types : doc_types[n].filename = filename
    THEN [n \in DOMAIN doc_types |->
             IF doc_types[n].filename = filename
             THEN [filename |-> filename, type |-> type]
             ELSE doc_types[n]]
    ELSE Append(doc_types, [filename |-> filename, type |-> type])

\* list(doc_types.values()), each type as its words
type_values(doc_types) == [n \in DOMAIN doc_types |-> Words(doc_types[n].type)]

\* issue["document"] = doc_info["filename"] (line 169)
labelled(issue, filename) ==
    [section |-> issue.section, issue |-> issue.issue, severity |-> issue.severity,
     suggestion |-> issue.suggestion, regulation |-> issue.regulation,
     document |-> filename]

\* lines 168-170, for the issues of one document
labelled_issues_of(issues, filename) ==
    [n \in DOMAIN issues |-> labelled(issues[n], filename)]

\* line 180: [i for i in all_issues if i["document"] == doc_info["filename"]]
doc_issues(all_issues, filename) ==
    SelectSeq(all_issues, LAMBDA i : i.document = filename)

\* the titles of doc_info["sections"], as words (line 125 of document_analyzer.py)
section_names_of(doc_info) ==
    [n \in DOMAIN doc_info.sections |-> paragraph_words(doc_info.sections[n].title)]

\* whether analyze_document reaches the query of _analyze_with_rag
analysis_query_made(content, doc_type) == content # <<>> /\ doc_type # "Unknown"

NoCalls == [type |-> <<>>, analysis |-> <<>>, process |-> 0, description |-> 0]

NoReport ==
    [process |-> "<not run>", process_description |-> <<>>, documents_uploaded |-> 0,
     required_documents |-> 0, missing_documents |-> <<>>, issues_count |-> 0,
     critical_issues_count |-> 0, compliance_percentage |-> 0]

RunIdle ==
    /\ run_pc = "idle"
    /\ run_uploads = <<>>
    /\ run_highlight = FALSE
    /\ run_disk = <<>>
    /\ run_saved = <<>>
    /\ run_i = 1
    /\ run_errors = <<>>
    /\ run_processed = <<>>
    /\ run_doc_types = <<>>
    /\ run_process_info = NoProcessResult
    /\ run_missing = <<>>
    /\ run_analysed = <<>>
    /\ run_all_issues = <<>>
    /\ run_produced = <<>>
    /\ run_handed = <<>>
    /\ run_summary_info = NoProcessResult
    /\ run_summary = NoReport
    /\ run_report = NoReport
    /\ run_calls = NoCalls

\* "Analyze Documents" is pressed with a non-empty batch: the uploads are
\* saved (lines 109-128)
RunStart ==
    /\ run_pc = "idle"
    /\ \E uploads \in Batches :
          /\ run_uploads' = uploads
          /\ run_disk' = saved_disk(uploads)
          /\ run_saved' = [n \in DOMAIN uploads |-> uploads[n].name]
          /\ run_calls' = [NoCalls EXCEPT !.type = [n \in DOMAIN uploads |-> 0],
                                          !.analysis = [n \in DOMAIN uploads |-> 0]]
    /\ run_pc' = "process"
    /\ run_i' = 1
    /\ UNCHANGED <<run_highlight, run_errors, run_processed, run_doc_types,
                   run_process_info, run_missing, run_analysed, run_all_issues,
                   run_produced, run_handed, run_summary_info, run_summary, run_report>>
    /\ UNCHANGED notRun

\* one pass of the loop of lines 130-146: process_document, then for a
\* processed document identify_document_type
RunProcessDoc ==
    /\ run_pc = "process"
    /\ LET file_path == run_saved[run_i]
           doc_info == process_document(file_path, run_disk[file_path])
       IN IF doc_info.error # None
          THEN /\ run_errors' = Append(run_errors, [src |-> run_i, error |-> doc_info.error])
               /\ UNCHANGED <<run_processed, run_doc_types, run_calls>>
          ELSE /\ run_processed' = Append(run_processed,
                       [src |-> run_i, filename |-> doc_info.filename,
                        content |-> doc_info.content,
                        section_names |-> section_names_of(doc_info)])
               /\ \E outcome \in IF type_query_made(doc_info.content)
                                 THEN RunTypeOutcomes ELSE {Raises} :
                     run_doc_types' = set_doc_type(run_doc_types, doc_info.filename,
                         identify_document_type(doc_info.filename, doc_info.content,
                                                outcome).type)
               /\ run_calls' = IF type_query_made(doc_info.content)
                               THEN [run_calls EXCEPT !.type[run_i] = @ + 1]
                               ELSE run_calls
               /\ UNCHANGED run_errors
    /\ run_i' = IF run_i = Len(run_saved) THEN 1 ELSE run_i + 1
    /\ run_pc' = IF run_i = Len(run_saved) THEN "identify" ELSE "process"
    /\ UNCHANGED <<run_uploads, run_highlight, run_disk, run_saved, run_process_info,
                   run_missing, run_analysed, run_all_issues, run_produced, run_handed,
                   run_summary_info, run_summary, run_report>>
    /\ UNCHANGED notRun

\* lines 148-158: identify_process and check_missing_documents
RunIdentifyProcess ==
    /\ run_pc = "identify"
    /\ \E outcome \in IF process_query_made(type_values(run_doc_types))
                      THEN RunProcessOutcomes ELSE {Raises} :
          run_process_info' = identify_process(type_values(run_doc_types), outcome)
    /\ run_missing' = check_missing_documents(type_values(run_doc_types),
                                              run_process_info')
    /\ run_calls' = IF process_query_made(type_values(run_doc_types))
                    THEN [run_calls EXCEPT !.process = @ + 1]
                    ELSE run_calls
    /\ run_pc' = IF run_processed = <<>> THEN "comment" ELSE "analyze"
    /\ UNCHANGED <<run_uploads, run_highlight, run_disk, run_saved, run_i, run_errors,
                   run_processed, run_doc_types, run_analysed, run_all_issues,
                   run_produced, run_handed, run_summary_info, run_summary, run_report>>
    /\ UNCHANGED notRun

\* one pass of the loop of lines 163-172: identify_document_type again, then
\* analyze_document, then the issues are labelled and collected
RunAnalyzeDoc ==
    /\ run_pc = "analyze"
    /\ \E type_outcome \in IF type_query_made(run_processed[run_i].content)
                           THEN RunTypeOutcomes ELSE {Raises} :
          run_analysed' = Append(run_analysed,
              identify_document_type(run_processed[run_i].filename,
                                     run_processed[run_i].content, type_outcome).type)
    /\ \E outcome \in IF analysis_query_made(run_processed[run_i].content,
                                             run_analysed'[run_i])
                      THEN RunAnalysisOutcomes ELSE {Raises} :
          run_produced' = Append(run_produced,
              labelled_issues_of(
                  analyze_document(run_processed[run_i].content,
                                   run_processed[run_i].section_names,
                                   run_analysed'[run_i], outcome),
                  run_processed[run_i].filename))
    /\ run_all_issues' = run_all_issues \o run_produced'[run_i]
    /\ run_calls' =
          [run_calls EXCEPT
              !.type[run_processed[run_i].src] =
                  @ + (IF type_query_made(run_processed[run_i].content) THEN 1 ELSE 0),
              !.analysis[run_processed[run_i].src] =
                  @ + (IF analysis_query_made(run_processed[run_i].content,
                                              run_analysed'[run_i])
                       THEN 1 ELSE 0)]
    /\ run_i' = IF run_i = Len(run_processed) THEN 1 ELSE run_i + 1
    /\ run_pc' = IF run_i = Len(run_processed) THEN "comment" ELSE "analyze"
    /\ UNCHANGED <<run_uploads, run_highlight, run_disk, run_saved, run_errors,
                   run_processed, run_doc_types, run_process_info, run_missing,
                   run_handed, run_summary_info, run_summary, run_report>>
    /\ UNCHANGED notRun

\* lines 174-185: each processed document's issues go to add_comments, if the
\* box is ticked and there are any; the box (line 87) is read here and
\* nowhere before, so its value is drawn here
RunComment ==
    /\ run_pc = "comment"
    /\ \E highlight_issues \in BOOLEAN :
          /\ run_highlight' = highlight_issues
          /\ run_handed' =
                [j \in DOMAIN run_processed |->
                    IF highlight_issues
                    THEN doc_issues(run_all_issues, run_processed[j].filename)
                    ELSE <<>>]
    /\ run_pc' = "report"
    /\ UNCHANGED <<run_uploads, run_disk, run_saved, run_i, run_errors,
                   run_processed, run_doc_types, run_process_info, run_missing,
                   run_analysed, run_all_issues, run_produced, run_summary_info,
                   run_summary, run_report, run_calls>>
    /\ UNCHANGED notRun

\* lines 187-200: generate_process_summary, which identifies the process
\* again and asks for its description, and the report
RunReport ==
    /\ run_pc = "report"
    /\ \E outcome \in IF process_query_made(type_values(run_doc_types))
                      THEN RunProcessOutcomes ELSE {Raises} :
          run_summary_info' = identify_process(type_values(run_doc_types), outcome)
    /\ \E description_outcome \in RunDescriptionOutcomes :
          run_summary' =
              generate_process_summary(type_values(run_doc_types), run_all_issues,
                                       run_summary_info', description_outcome)
    /\ run_report' =
          [process |-> run_process_info.process,
           process_description |-> run_summary'.process_description,
           documents_uploaded |-> Len(run_processed),
           required_documents |-> Len(run_process_info.required_docs),
           missing_documents |-> run_missing,
           issues_count |-> Len(run_all_issues),
           critical_issues_count |-> severity_count(run_all_issues, "High"),
           compliance_percentage |-> run_summary'.compliance_percentage]
    /\ run_calls' =
          [run_calls EXCEPT
              !.process = @ + (IF process_query_made(type_values(run_doc_types))
                               THEN 1 ELSE 0),
              !.description = @ + 1]
    /\ run_pc' = "done"
    /\ UNCHANGED <<run_uploads, run_highlight, run_disk, run_saved, run_i, run_errors,
                   run_processed, run_doc_types, run_process_info, run_missing,
                   run_analysed, run_all_issues, run_produced, run_handed>>
    /\ UNCHANGED notRun

\* the page is ready for the next batch
RunReset ==
    /\ run_pc = "done"
    /\ run_pc' = "idle"
    /\ run_uploads' = <<>>
    /\ run_highlight' = FALSE
    /\ run_disk' = <<>>
    /\ run_saved' = <<>>
    /\ run_i' = 1
    /\ run_errors' = <<>>
    /\ run_processed' = <<>>
    /\ run_doc_types' = <<>>
    /\ run_process_info' = NoProcessResult
    /\ run_missing' = <<>>
    /\ run_analysed' = <<>>
    /\ run_all_issues' = <<>>
    /\ run_produced' = <<>>
    /\ run_handed' = <<>>
    /\ run_summary_info' = NoProcessResult
    /\ run_summary' = NoReport
    /\ run_report' = NoReport
    /\ run_calls' = NoCalls
    /\ UNCHANGED notRun

-----------------------------------------------------------------------------
(* streamlit_app.py, rag_engine.py : the knowledge base from construction to rebuild *)

MaxPasses == 3   \* indexes built from the corpus in one behaviour

\* the snapshot directory: the number of the corpus pass that saved it (0:
\* no index.faiss) and whether FAISS.load_local can read it
Snapshot(gen, readable) == [gen |-> gen, readable |-> readable]

NoSnapshot == Snapshot(0, FALSE)

\* "none", "corrupt" or "good", as load_or_create_vectorstore meets it
snapshot_kind(disk) ==
    IF disk.gen = 0 THEN "none" ELSE IF disk.readable THEN "good" ELSE "corrupt"

\* a RAGEngine: vectorstore is the number of the corpus pass whose index it
\* holds, qa_chain the number of the index its retriever searches; 0 is None
Engine(embeddings, llm, vectorstore, qa_chain) ==
    [embeddings |-> embeddings, llm |-> llm, vectorstore |-> vectorstore,
     qa_chain |-> qa_chain]

NoEngine == Engine("none", FALSE, 0, 0)

\* what HuggingFaceEmbeddings(...) does at line 38
EmbeddingOutcomes == {"ok", "ImportError", "OSError"}

\* lines 36-44: the embeddings the engine holds, "raised" if the exception
\* is not the ImportError the except clause names
init_embeddings(outcome) ==
    CASE outcome = "ok" -> "HuggingFaceEmbeddings"
      [] outcome = "ImportError" -> "FakeEmbeddings"
      [] OTHER -> "raised"

Build(embedding, snapshot, load_setup_raised, fetches) ==
    [embedding |-> embedding, snapshot |-> snapshot,
     load_setup_raised |-> load_setup_raised, fetches |-> fetches]

NoBuild == Build("ok", "unread", FALSE, 0)

\* mutant: a failure after FAISS.load_local is logged and the method returns
load_path_returns_despite_error(snapshot, setup_raises) == snapshot = "good"

\* lines 84-92: load_or_create_vectorstore returns at line 90
load_path_returns(snapshot, setup_raises) == snapshot = "good" /\ ~setup_raises

\* mutant: a query is served by the engine that is being constructed
engine_in_use_shared(cached, constructing) ==
    IF constructing # NoEngine THEN constructing ELSE cached

\* the engine a script run holds is the one load_components returned (line
\* 62); an engine under construction is not reachable before __init__ returns
engine_in_use(cached, constructing) == cached

NoQuery ==
    [cached |-> NoEngine, used |-> NoEngine, sentinel |-> TRUE, asked |-> FALSE,
     pc |-> "none"]

KbIdle ==
    /\ kb_pc = "none"
    /\ kb_disk = NoSnapshot
    /\ kb_passes = 0
    /\ kb_engine = NoEngine
    /\ kb_new = NoEngine
    /\ kb_build = NoBuild
    /\ kb_rebuild = FALSE
    /\ kb_rebuilt = FALSE
    /\ kb_before = NoSnapshot
    /\ kb_seen = NoQuery

\* load_components() finds the cache empty and RAGEngine.__init__ runs up
\* to the call of load_or_create_vectorstore (rag_engine.py lines 30-56)
KbInit ==
    /\ kb_pc \in {"none", "crashed"}
    /\ \E outcome \in EmbeddingOutcomes, llm_ok \in BOOLEAN :
          /\ kb_build' = Build(outcome, "unread", FALSE, 0)
          /\ IF init_embeddings(outcome) = "raised"
             THEN /\ kb_pc' = "crashed"
                  /\ kb_new' = NoEngine
             ELSE /\ kb_pc' = "load"
                  /\ kb_new' = Engine(init_embeddings(outcome), llm_ok, 0, 0)
    /\ UNCHANGED <<kb_disk, kb_passes, kb_engine, kb_rebuild, kb_rebuilt, kb_before,
                   kb_seen>>
    /\ UNCHANGED notKb

\* load_or_create_vectorstore up to the assignment of the loaded store
\* (lines 79-87)
KbLoad ==
    /\ kb_pc = "load"
    /\ kb_build' = [kb_build EXCEPT !.snapshot = snapshot_kind(kb_disk)]
    /\ IF snapshot_kind(kb_disk) = "good"
       THEN /\ kb_new' = [kb_new EXCEPT !.vectorstore = kb_disk.gen]
            /\ kb_pc' = "load_setup"
       ELSE /\ kb_pc' = "collect"
            /\ UNCHANGED kb_new
    /\ UNCHANGED <<kb_disk, kb_passes, kb_engine, kb_rebuild, kb_rebuilt, kb_before,
                   kb_seen>>
    /\ UNCHANGED notKb

\* _setup_retriever on the loaded store, then `return`, or the except
\* clause and on to collect_and_create_vectorstore (lines 88-97)
KbLoadSetup ==
    /\ kb_pc = "load_setup"
    /\ \E chain_ok \in BOOLEAN :
          LET setup == setup_retriever(TRUE, kb_new.llm, chain_ok)
          IN /\ kb_build' = [kb_build EXCEPT !.load_setup_raised = setup.raises]
             /\ IF load_path_returns("good", setup.raises)
                THEN /\ kb_new' = [kb_new EXCEPT
                                      !.qa_chain = IF setup.qa_chain THEN kb_new.vectorstore
                                                   ELSE 0]
                     /\ kb_pc' = "constructed"
                ELSE /\ kb_pc' = "collect"
                     /\ UNCHANGED kb_new
    /\ UNCHANGED <<kb_disk, kb_passes, kb_engine, kb_rebuild, kb_rebuilt, kb_before,
                   kb_seen>>
    /\ UNCHANGED notKb

\* collect_and_create_vectorstore up to save_local (lines 99-280): one pass
\* over adgm_sources; with documents, a new index is built, assigned and saved
KbCollect ==
    /\ kb_pc = "collect"
    /\ kb_passes < MaxPasses
    /\ kb_build' = [kb_build EXCEPT !.fetches = @ + 1]
    /\ \E collected \in BOOLEAN :
          IF collected
          THEN /\ kb_passes' = kb_passes + 1
               /\ kb_new' = [kb_new EXCEPT !.vectorstore = kb_passes + 1]
               /\ kb_disk' = Snapshot(kb_passes + 1, TRUE)
               /\ kb_pc' = "collect_setup"
          ELSE /\ kb_pc' = "constructed"
               /\ UNCHANGED <<kb_passes, kb_new, kb_disk>>
    /\ UNCHANGED <<kb_engine, kb_rebuild, kb_rebuilt, kb_before, kb_seen>>
    /\ UNCHANGED notKb

\* _setup_retriever on the new store (line 285); an exception leaves __init__
KbCollectSetup ==
    /\ kb_pc = "collect_setup"
    /\ \E chain_ok \in BOOLEAN :
          LET setup == setup_retriever(TRUE, kb_new.llm, chain_ok)
          IN IF setup.raises
             THEN /\ kb_pc' = "crashed"
                  /\ kb_new' = NoEngine
             ELSE /\ kb_pc' = "constructed"
                  /\ kb_new' = [kb_new EXCEPT
                                   !.qa_chain = IF setup.qa_chain THEN kb_new.vectorstore
                                                ELSE 0]
    /\ UNCHANGED <<kb_disk, kb_passes, kb_engine, kb_build, kb_rebuild, kb_rebuilt,
                   kb_before, kb_seen>>
    /\ UNCHANGED notKb

\* __init__ returns, load_components caches and returns the engine
\* (streamlit_app.py lines 12-20 and 62)
KbPublish ==
    /\ kb_pc = "constructed"
    /\ kb_engine' = kb_new
    /\ kb_new' = NoEngine
    /\ kb_pc' = "cached"
    /\ UNCHANGED <<kb_disk, kb_passes, kb_build, kb_rebuild, kb_rebuilt, kb_before,
                   kb_seen>>
    /\ UNCHANGED notKb

\* the "Rebuild Knowledge Base" button (lines 50-52)
KbRequestRebuild ==
    /\ kb_pc = "cached"
    /\ ~kb_rebuild
    /\ kb_rebuild' = TRUE
    /\ kb_before' = kb_disk
    /\ UNCHANGED <<kb_pc, kb_disk, kb_passes, kb_engine, kb_new, kb_build, kb_rebuilt,
                   kb_seen>>
    /\ UNCHANGED notKb

\* lines 55-59: the cache is cleared and the script runs again; script
\* runs in flight keep the engine they hold
KbRerun ==
    /\ kb_pc = "cached"
    /\ kb_rebuild
    /\ kb_rebuild' = FALSE
    /\ kb_rebuilt' = TRUE
    /\ kb_pc' = "none"
    /\ UNCHANGED <<kb_disk, kb_passes, kb_engine, kb_new, kb_build, kb_before, kb_seen>>
    /\ UNCHANGED notKb

\* rag_engine.query(question) in a script run, at any moment after the
\* first engine was returned
KbQuery ==
    /\ kb_engine # NoEngine
    /\ LET e == engine_in_use(kb_engine, kb_new)
       IN kb_seen' = [cached |-> kb_engine, used |-> e, asked |-> TRUE, pc |-> kb_pc,
                      sentinel |-> query_degraded(e.vectorstore # 0, e.qa_chain # 0, e.llm)]
    /\ UNCHANGED <<kb_pc, kb_disk, kb_passes, kb_engine, kb_new, kb_build, kb_rebuild,
                   kb_rebuilt, kb_before>>
    /\ UNCHANGED notKb

\* index.faiss is there but FAISS.load_local can no longer read it
KbDamageSnapshot ==
    /\ kb_pc \in {"cached", "crashed"}
    /\ kb_disk.gen > 0
    /\ kb_disk.readable
    /\ kb_disk' = [kb_disk EXCEPT !.readable = FALSE]
    /\ UNCHANGED <<kb_pc, kb_passes, kb_engine, kb_new, kb_build, kb_rebuild, kb_rebuilt,
                   kb_before, kb_seen>>
    /\ UNCHANGED notKb

-----------------------------------------------------------------------------
(* rag_engine.py : collect_and_create_vectorstore, _extract_embedded_documents
   adgm_scraper.py : scrape_sources, scrape_webpage,
                     download_and_process_document, save_metadata
   Both write <data_dir>/document_metadata.json (data_dir and output_dir
   default to "adgm_extracted_data"). *)

MaxSources == 2   \* entries of the source list of one pass
MaxLinks == 2     \* <a href> links of one fetched page

\* a URL, by what the code tests of it: its ending, and whether it contains
\* one of the scraper's doc_keywords
Url(address, ending, keyword) == [address |-> address, ending |-> ending, keyword |-> keyword]

\* one (category, doc_type, url) entry of the source list
Source(category, doc_type, url) == [category |-> category, doc_type |-> doc_type, url |-> url]

IngestSources ==
    {Source("Company Setup", "Checklist", Url("adgm.com/checklist.pdf", "pdf", FALSE)),
     Source("Employment", "Contract", Url("adgm.com/contract.docx", "docx", TRUE)),
     Source("Compliance", "Annual Accounts", Url("adgm.com/annual-accounts", "", FALSE))}

\* an <a href> of a page and what fetching and extracting it gives; text is
\* the extracted text, "" when the file has none, None when extraction failed
Link(href, link_text, fetched, text) ==
    [href |-> href, link_text |-> link_text, fetched |-> fetched, text |-> text]

PageLinks ==
    {Link(Url("adgm.com/form.pdf", "pdf", TRUE), "Form", TRUE, "text"),
     Link(Url("adgm.com/scan.pdf", "pdf", TRUE), "", TRUE, None),
     Link(Url("adgm.com/gone.docx", "docx", TRUE), "Gone", FALSE, None),
     Link(Url("adgm.com/about", "", FALSE), "About", TRUE, "text")}

\* what requests.get and the text extraction do for one source
Fetch(fetched, text, links) == [fetched |-> fetched, text |-> text, links |-> links]

FetchOutcomes ==
    {Fetch(FALSE, None, <<>>)}
    \cup {Fetch(TRUE, text, links) :
             text \in {"text", "", None}, links \in SeqUpTo(PageLinks, MaxLinks)}

\* the outcomes that can happen for a source: only a page has links and its
\* text extraction (soup.get_text) gives a string
outcomes_of(source) ==
    {o \in FetchOutcomes :
        IF source.url.ending \in {"pdf", "docx"} THEN o.links = <<>>
        ELSE o.fetched => o.text # None}

\* rag_engine.py lines 146-154, 186-194, 231-239, 352-361: a corpus document
EngineDocument(source, category, document_type, file_type) ==
    [source |-> source, category |-> category, document_type |-> document_type,
     file_type |-> file_type]

\* lines 157-163, 197-203, 242-248: the metadata object of a listed source
EngineMetadata(source, file_type, extension) ==
    [source |-> source.url.address, category |-> source.category,
     document_type |-> source.doc_type,
     filename |-> <<source.category, source.doc_type, extension>>,
     file_type |-> file_type]

\* lines 312-313: link_text, or "Embedded Document"
embedded_link_text(link) ==
    IF link.link_text = "" THEN "Embedded Document" ELSE link.link_text

\* lines 364-372: the metadata object of an embedded document
EmbeddedMetadata(source, link) ==
    [source |-> link.href.address, category |-> source.category,
     document_type |-> <<source.doc_type, embedded_link_text(link)>>,
     filename |-> <<source.category, source.doc_type, embedded_link_text(link),
                    link.href.ending>>,
     text_path |-> <<source.category, source.doc_type, embedded_link_text(link), "txt">>,
     file_type |-> IF link.href.ending = "pdf" THEN "PDF" ELSE "DOCX",
     parent_url |-> source.url.address]

\* lines 294-334: the links _extract_embedded_documents ingests
embedded_links(links) ==
    SelectSeq(links, LAMBDA link :
        /\ link.href.ending \in {"pdf", "docx"}
        /\ link.fetched
        /\ link.text \notin {"", None})

\* a text was extracted (`if pdf_text:`)
has_extracted_text(outcome) == outcome.text \notin {"", None}

\* one iteration of the loop of lines 120-254: what it appends to metadata_list
engine_metadata_of(source, outcome) ==
    IF ~outcome.fetched THEN <<>>
    ELSE IF source.url.ending = "pdf"
    THEN IF has_extracted_text(outcome) THEN <<EngineMetadata(source, "PDF", "pdf")>> ELSE <<>>
    ELSE IF source.url.ending = "docx"
    THEN IF has_extracted_text(outcome) THEN <<EngineMetadata(source, "DOCX", "docx")>> ELSE <<>>
    ELSE <<EngineMetadata(source, "Webpage", "html")>>
         \o [i \in 1..Len(embedded_links(outcome.links)) |->
                EmbeddedMetadata(source, embedded_links(outcome.links)[i])]

\* the same iteration: what it appends to documents
engine_documents_of(source, outcome) ==
    IF ~outcome.fetched THEN <<>>
    ELSE IF source.url.ending = "pdf"
    THEN IF has_extracted_text(outcome)
         THEN <<EngineDocument(source.url.address, source.category, source.doc_type, "PDF")>>
         ELSE <<>>
    ELSE IF source.url.ending = "docx"
    THEN IF has_extracted_text(outcome)
         THEN <<EngineDocument(source.url.address, source.category, source.doc_type, "DOCX")>>
         ELSE <<>>
    ELSE <<EngineDocument(source.url.address, source.category, source.doc_type, "Webpage")>>
         \o [i \in 1..Len(embedded_links(outcome.links)) |->
                EngineDocument(embedded_links(outcome.links)[i].href.address,
                               source.category,
                               <<source.doc_type,
                                 embedded_link_text(embedded_links(outcome.links)[i])>>,
                               IF embedded_links(outcome.links)[i].href.ending = "pdf"
                               THEN "PDF" ELSE "DOCX")]

\* adgm_scraper.py lines 96-104: the metadata object of a scraped page
ScraperPageMetadata(source) ==
    [category |-> source.category, document_type |-> source.doc_type,
     url |-> source.url.address,
     filename |-> <<source.category, source.doc_type, source.url.address, "txt">>,
     is_webpage |-> TRUE,
     extracted_text_path |-> <<source.category, source.doc_type, source.url.address, "txt">>,
     extraction_date |-> "now"]

\* lines 199-208: the metadata object of a downloaded document
ScraperDocumentMetadata(source, url, link_text) ==
    [category |-> source.category, document_type |-> source.doc_type,
     url |-> url.address,
     original_filename |-> url.address,
     saved_path |-> <<source.category, url.address>>,
     extracted_text_path |-> <<source.category, url.address, "txt">>,
     link_text |-> link_text,
     extraction_date |-> "now"]

\* is_document_link(url) (lines 140-154)
is_document_link(url) ==
    url.ending \in {"pdf", "docx", "doc", "xlsx", "xls", "pptx", "ppt", "txt"} \/ url.keyword

\* lines 119-138 with 156-211: the links whose download leaves an extracted text
downloaded_links(links) ==
    SelectSeq(links, LAMBDA link :
        /\ is_document_link(link.href)
        /\ link.fetched
        /\ link.href.ending \in {"pdf", "docx", "doc"}
        /\ link.text \notin {"", None})

\* one iteration of the loop of lines 48-60: what it appends to
\* self.document_metadata
scraper_metadata_of(source, outcome) ==
    IF ~outcome.fetched THEN <<>>
    ELSE IF source.url.ending \in {"pdf", "docx", "doc"}
    THEN IF has_extracted_text(outcome)
         THEN <<ScraperDocumentMetadata(source, source.url, None)>>
         ELSE <<>>
    ELSE (IF has_extracted_text(outcome) THEN <<ScraperPageMetadata(source)>> ELSE <<>>)
         \o [i \in 1..Len(downloaded_links(outcome.links)) |->
                ScraperDocumentMetadata(source, downloaded_links(outcome.links)[i].href,
                                        downloaded_links(outcome.links)[i].link_text)]

\* the same iteration: the URLs whose extracted text it wrote to extracted_text/
scraper_documents_of(source, outcome) ==
    IF ~outcome.fetched THEN <<>>
    ELSE IF source.url.ending \in {"pdf", "docx", "doc"}
    THEN IF has_extracted_text(outcome) THEN <<source.url.address>> ELSE <<>>
    ELSE (IF has_extracted_text(outcome) THEN <<source.url.address>> ELSE <<>>)
         \o [i \in 1..Len(downloaded_links(outcome.links)) |->
                downloaded_links(outcome.links)[i].href.address]

NoMetadataFile == <<"<no file>">>

IngestIdle ==
    /\ ig_pc = "idle"
    /\ ig_producer = None
    /\ ig_sources = <<>>
    /\ ig_n = 0
    /\ ig_documents = <<>>
    /\ ig_metadata = <<>>
    /\ ig_file = NoMetadataFile

\* collect_and_create_vectorstore() starts (rag_engine.py lines 99-117)
IgEngineStart ==
    /\ ig_pc = "idle"
    /\ \E sources \in SeqUpTo(IngestSources, MaxSources) \ {<<>>} : ig_sources' = sources
    /\ ig_producer' = "engine"
    /\ ig_pc' = "collecting"
    /\ ig_n' = 0
    /\ ig_documents' = <<>>
    /\ ig_metadata' = <<>>
    /\ UNCHANGED ig_file
    /\ UNCHANGED notIngest

\* ADGMScraper().scrape_sources(sources) starts (adgm_scraper.py lines 26-46)
IgScraperStart ==
    /\ ig_pc = "idle"
    /\ \E sources \in SeqUpTo(IngestSources, MaxSources) \ {<<>>} : ig_sources' = sources
    /\ ig_producer' = "scraper"
    /\ ig_pc' = "collecting"
    /\ ig_n' = 0
    /\ ig_documents' = <<>>
    /\ ig_metadata' = <<>>
    /\ UNCHANGED ig_file
    /\ UNCHANGED notIngest

\* one iteration of the engine's loop over adgm_sources (lines 120-254)
IgEngineSource ==
    /\ ig_pc = "collecting"
    /\ ig_producer = "engine"
    /\ ig_n < Len(ig_sources)
    /\ \E outcome \in outcomes_of(ig_sources[ig_n + 1]) :
          /\ ig_documents' = ig_documents \o engine_documents_of(ig_sources[ig_n + 1], outcome)
          /\ ig_metadata' = ig_metadata \o engine_metadata_of(ig_sources[ig_n + 1], outcome)
    /\ ig_n' = ig_n + 1
    /\ UNCHANGED <<ig_pc, ig_producer, ig_sources, ig_file>>
    /\ UNCHANGED notIngest

\* one iteration of the scraper's loop over sources (lines 48-60)
IgScraperSource ==
    /\ ig_pc = "collecting"
    /\ ig_producer = "scraper"
    /\ ig_n < Len(ig_sources)
    /\ \E outcome \in outcomes_of(ig_sources[ig_n + 1]) :
          /\ ig_documents' = ig_documents \o scraper_documents_of(ig_sources[ig_n + 1], outcome)
          /\ ig_metadata' = ig_metadata \o scraper_metadata_of(ig_sources[ig_n + 1], outcome)
    /\ ig_n' = ig_n + 1
    /\ UNCHANGED <<ig_pc, ig_producer, ig_sources, ig_file>>
    /\ UNCHANGED notIngest

\* json.dump(metadata_list, f) after the loop (rag_engine.py lines 257-259,
\* adgm_scraper.py lines 63 and 287-292)
IgSaveMetadata ==
    /\ ig_pc = "collecting"
    /\ ig_n = Len(ig_sources)
    /\ ig_file' = ig_metadata
    /\ ig_pc' = "saved"
    /\ UNCHANGED <<ig_producer, ig_sources, ig_n, ig_documents, ig_metadata>>
    /\ UNCHANGED notIngest

\* the pass is over; the file stays
IgReset ==
    /\ ig_pc = "saved"
    /\ ig_pc' = "idle"
    /\ ig_producer' = None
    /\ ig_sources' = <<>>
    /\ ig_n' = 0
    /\ ig_documents' = <<>>
    /\ ig_metadata' = <<>>
    /\ UNCHANGED ig_file
    /\ UNCHANGED notIngest

\* every component at rest
AllIdle ==
    /\ ScoreIdle /\ AnalyzerIdle /\ ProcessorIdle
    /\ TypeIdle /\ VerifierIdle /\ EngineIdle /\ RunIdle /\ KbIdle
    /\ IngestIdle

ScoreNext == ScAddMissing \/ ScAddIssue \/ ScCalculate

SpecScore == AllIdle /\ [][ScoreNext]_vars

AnalyzerNext == AnLoad \/ AnAnalyze \/ AnReset

SpecIssues == AllIdle /\ [][AnalyzerNext]_vars

LabeledNext == AnLoad \/ AnAnalyzeLabeled \/ AnReset

SpecLabeled == AllIdle /\ [][LabeledNext]_vars

SentencesNext == AnLoad \/ AnAnalyzeSentences \/ AnReset

SpecSentences == AllIdle /\ [][SentencesNext]_vars

ProcessorNext == DpAddParagraph \/ DpExtractSections

SpecSections == AllIdle /\ [][ProcessorNext]_vars

\* the classifiers of one analysis run: a type per document, then the process
ClassifyNext ==
    \/ TyLoad \/ TyIdentifyDirect \/ TyIdentifyQuery \/ TyReset
    \/ CvLoad \/ CvIdentifyDirect \/ CvIdentifyQuery \/ CvCheckMissing \/ CvReset

SpecType == AllIdle /\ [][ClassifyNext]_vars

EngineNext == EnConstruct \/ EnQuery

SpecEngine == AllIdle /\ [][EngineNext]_vars

RunNext ==
    \/ RunStart \/ RunProcessDoc \/ RunIdentifyProcess \/ RunAnalyzeDoc
    \/ RunComment \/ RunReport \/ RunReset

SpecRun == AllIdle /\ [][RunNext]_vars

KnowledgeBaseNext ==
    \/ KbInit \/ KbLoad \/ KbLoadSetup \/ KbCollect \/ KbCollectSetup \/ KbPublish
    \/ KbRequestRebuild \/ KbRerun \/ KbQuery \/ KbDamageSnapshot

SpecKnowledgeBase == AllIdle /\ [][KnowledgeBaseNext]_vars

IngestNext ==
    \/ IgEngineStart \/ IgScraperStart \/ IgEngineSource \/ IgScraperSource
    \/ IgSaveMetadata \/ IgReset

SpecIngest == AllIdle /\ [][IngestNext]_vars

\* number of issues of the list whose severity is exactly sev
NumWithSeverity(issues, sev) ==
    Len(SelectSeq(issues, LAMBDA i : i.severity = sev))

\* the list with its elements i and i+1 exchanged
SwapAt(s, i) ==
    [k \in DOMAIN s |-> IF k = i THEN s[i + 1] ELSE IF k = i + 1 THEN s[i] ELSE s[k]]

\* C4: for any missing-document list and any issue list the returned
\* percentage is max(0, min(100, 100 - 15*missing - 5*High - 2*Medium - Low)),
\* lies in [0,100], does not change when two issues are exchanged, and is 79
\* for one missing document with one High and one Low issue.
C4_ScoreIsClampedLinear ==
    sc_pc = "scored" =>
        LET m == Len(sc_missing)
            h == NumWithSeverity(sc_issues, "High")
            md == NumWithSeverity(sc_issues, "Medium")
            l == NumWithSeverity(sc_issues, "Low")
            linear == 100 - 15 * m - 5 * h - 2 * md - l
        IN /\ sc_result = (IF linear < 0 THEN 0 ELSE IF linear > 100 THEN 100 ELSE linear)
           /\ sc_result \in 0..100
           /\ \A i \in 1..(Len(sc_issues) - 1) :
                  calculate_compliance_percentage(sc_missing, SwapAt(sc_issues, i)) = sc_result
           /\ (m = 1 /\ sc_issues = <<IssueOf("High"), IssueOf("Low")>>) => sc_result = 79

\* the concrete scenario of the claim has been scored
C4_Witness ==
    /\ sc_pc = "scored"
    /\ sc_missing = <<"UBO Declaration">>
    /\ sc_issues = <<IssueOf("High"), IssueOf("Low")>>
    /\ sc_result = 79

\* C5: one more Low issue never raises the percentage and lowers it by at
\* most 1; one more High issue lowers the value before the clamp by exactly
\* 5 and the returned percentage by at most 5.
C5_ScoreMonotone ==
    sc_pc = "scored" =>
        LET withLow == Append(sc_issues, IssueOf("Low"))
            withHigh == Append(sc_issues, IssueOf("High"))
            lowResult == calculate_compliance_percentage(sc_missing, withLow)
            highResult == calculate_compliance_percentage(sc_missing, withHigh)
        IN /\ lowResult <= sc_result
           /\ sc_result - lowResult <= 1
           /\ compliance_before_clamp(sc_missing, withHigh) = sc_compliance - 5
           /\ highResult <= sc_result
           /\ sc_result - highResult <= 5

\* a score that is already clamped to 0 has been calculated: adding issues
\* there changes the value before the clamp but not the result
C5_Witness ==
    /\ sc_pc = "scored"
    /\ sc_result = 0
    /\ sc_compliance < 0
    /\ sc_issues # <<>>

-----------------------------------------------------------------------------
(* Claims about analyze_document *)

\* the document is analysable: content is not empty and the type is known
Analysable == an_content # <<>> /\ an_type # "Unknown"

\* C1: for a document with content and an identified type, when the query
\* raises, or answers with the empty text, or answers with a text from which
\* none of the three strategies extracts an issue, analyze_document returns
\* exactly one issue: section General, severity Low, the manual-review
\* message; and it never returns an empty list.
C1_FallbackIssue ==
    an_pc = "analyzed" =>
        /\ an_issues # <<>>
        /\ (/\ Analysable
            /\ \/ an_outcome.raises
               \/ an_outcome.text = <<>>
               \/ /\ strategy_json(an_outcome.text) = <<>>
                  /\ strategy_labeled(an_outcome.text) = <<>>
                  /\ strategy_sentences(an_outcome.text, an_sections) = <<>>)
           => /\ Len(an_issues) = 1
              /\ an_issues[1].section = <<"General">>
              /\ an_issues[1].severity = "Low"
              /\ an_issues[1].issue =
                    <<"Document", "analysis", "completed", "but", "no", "specific",
                      "issues", "were", "identified", ".", "Recommend", "manual",
                      "review", ".">>

\* a non-empty answer that no strategy matches was turned into the one
\* manual-review issue
C1_Witness ==
    /\ an_pc = "analyzed"
    /\ Analysable
    /\ an_outcome = Answer(<<"Looks", "fine", DOT>>)
    /\ Len(an_issues) = 1
    /\ an_issues[1].severity = "Low"

\* C2: the issues extracted from a non-empty answer are the issues of one
\* strategy only, the first of (structured block, labeled line, sentence
\* heuristic) that yields any: blocks win over labeled lines, and sentences
\* are used only when both yield nothing.
C2_FirstStrategyWins ==
    (an_pc = "analyzed" /\ Analysable /\ ~an_outcome.raises /\ an_outcome.text # <<>>) =>
        LET fromBlocks == strategy_json(an_outcome.text)
            fromLabels == strategy_labeled(an_outcome.text)
            fromSentences == strategy_sentences(an_outcome.text, an_sections)
        IN /\ fromBlocks # <<>> => an_issues = fromBlocks
           /\ (fromBlocks = <<>> /\ fromLabels # <<>>) => an_issues = fromLabels
           /\ (fromBlocks = <<>> /\ fromLabels = <<>> /\ fromSentences # <<>>)
                 => an_issues = fromSentences

\* an answer with a valid block and a labeled issue line gave the block's
\* issue alone
C2_Witness ==
    /\ an_pc = "analyzed"
    /\ Analysable
    /\ an_outcome = Answer(<<"{", J_section, J_issue, J_sevHigh, "}",
                             "Issue:", "clause", "absent", NL>>)
    /\ Len(an_issues) = 1
    /\ an_issues[1].issue = <<"no", "quorum", "clause">>

\* C3: every issue analyze_document returns has severity High, Medium or Low.
C3_SeverityInThreeLevels ==
    an_pc = "analyzed" =>
        \A n \in DOMAIN an_issues : an_issues[n].severity \in {"High", "Medium", "Low"}

-----------------------------------------------------------------------------
(* Claims about _extract_document_sections *)

\* how often paragraph index i occurs in the paragraph lists of the sections
Occurrences(i) ==
    Cardinality({<<k, n>> \in (DOMAIN dp_sections) \X (1..MaxParagraphs + 2) :
                    /\ n \in DOMAIN dp_sections[k].paragraphs
                    /\ dp_sections[k].paragraphs[n] = i})

ParagraphIndices == 0..(Len(dp_paragraphs) - 1)

\* index of the heading that opens the section paragraph i falls in, or -1
\* for the paragraphs before the first heading
OpeningHeading(i) ==
    LET before == {j \in 0..i : starts_section(dp_paragraphs[j + 1])}
    IN IF before = {} THEN 0 - 1
       ELSE CHOOSE j \in before : \A k \in before : k <= j

\* the section paragraph i falls in has a body paragraph with text
SectionHasBody(i) ==
    \E k \in ParagraphIndices :
        /\ OpeningHeading(k) = OpeningHeading(i)
        /\ ~starts_section(dp_paragraphs[k + 1])
        /\ has_text(dp_paragraphs[k + 1].text)

\* C8 as stated: every paragraph index 0..N-1 appears in exactly one
\* section's paragraph list.
C8_EveryIndexInExactlyOneSection ==
    dp_pc = "extracted" => \A i \in ParagraphIndices : Occurrences(i) = 1

\* C8, amended: every paragraph index appears in at most one returned
\* section, and it appears in one exactly when the section it falls in has
\* a non-heading paragraph with non-blank text (sections without such a
\* body are not returned, and their paragraph indices with them).
C8_IndexInAtMostOneSection ==
    dp_pc = "extracted" =>
        \A i \in ParagraphIndices :
            /\ Occurrences(i) <= 1
            /\ Occurrences(i) = 1 <=> SectionHasBody(i)

\* a heading without body was dropped and the section after it returned
C8_Witness ==
    /\ dp_pc = "extracted"
    /\ Len(dp_paragraphs) = 3
    /\ starts_section(dp_paragraphs[1])
    /\ starts_section(dp_paragraphs[2])
    /\ Occurrences(0) = 0
    /\ Occurrences(1) = 1
    /\ Occurrences(2) = 1

-----------------------------------------------------------------------------
(* Claims about RAGEngine.query *)

\* C6: whenever the vector index, the QA chain or the model handle is absent,
\* query returns the "not fully initialized" sentinel without invoking the QA
\* chain (and with it the model), and in no engine state does query raise to
\* its caller.
C6_DegradedQueryReturnsSentinel ==
    /\ ~en_raised
    /\ (en_pc = "answered" /\ (~en_vectorstore \/ ~en_qa_chain \/ ~en_llm))
          => (en_answer = Sentinel /\ ~en_invoked)

\* an engine whose index and model are there but whose QA chain could not be
\* built has answered a query with the sentinel
C6_Witness ==
    /\ en_pc = "answered"
    /\ en_vectorstore /\ en_llm /\ ~en_qa_chain
    /\ en_answer = Sentinel
    /\ ~en_invoked

-----------------------------------------------------------------------------
(* Claims about the classifiers *)

SentinelOutcome == Answer(Sentinel)

\* C7: when the query engine returns the degraded-mode sentinel, the
\* classifiers treat it as no answer: identify_document_type returns no
\* model-derived result (confidence 0.8) but the keyword / Unknown result,
\* and identify_process returns exactly the result of
\* _fallback_process_identification; both return a result.
C7_SentinelIsNoAnswer ==
    /\ (ty_pc = "identified" /\ ty_queried /\ ty_outcome = SentinelOutcome)
          => /\ ty_result.confidence # Frac(8, 10)
             /\ ~ty_result.rag_identification
             /\ ty_result = heuristic_document_type(ty_filename, ty_content)
    /\ (cv_pc = "identified" /\ cv_queried /\ cv_outcome = SentinelOutcome)
          => /\ cv_result = fallback_process_identification(cv_types)
             /\ ~cv_result.from_rag

\* the sentinel came back for a batch that the heuristic fallback recognises
C7_Witness ==
    /\ cv_pc = "identified"
    /\ cv_queried
    /\ cv_outcome = SentinelOutcome
    /\ cv_types = <<Words("Employment Contract")>>
    /\ cv_result.process = "Employment Setup"

\* the signatures the content contains, without regard to case
SignaturesIn(content) ==
    {n \in DOMAIN DOCUMENT_SIGNATURES :
        Contains(lower(content), lower(DOCUMENT_SIGNATURES[n].signature))}

\* C9: for non-empty content that contains (case-insensitively) at least one
\* phrase of the signature table, identify_document_type returns the type of
\* the first such phrase in table order with confidence 0.9 and that phrase as
\* the signature match, without calling the query engine.
C9_FirstSignatureInTableOrder ==
    (ty_pc = "identified" /\ ty_content # <<>> /\ SignaturesIn(ty_content) # {})
        => \E n \in SignaturesIn(ty_content) :
              /\ \A m \in SignaturesIn(ty_content) : n <= m
              /\ ty_result.type = DOCUMENT_SIGNATURES[n].doc_type
              /\ ty_result.confidence = Frac(9, 10)
              /\ ty_result.signature_match = DOCUMENT_SIGNATURES[n].signature
              /\ ~ty_queried

\* the content holds "contract of employment" before "employment contract",
\* and the phrase that comes first in the table is the one returned
C9_Witness ==
    /\ ty_pc = "identified"
    /\ ty_content = <<"contract", "of", "employment", "contract", NL>>
    /\ ty_result.type = "Employment Contract"
    /\ ty_result.signature_match = <<"employment", "contract">>
    /\ ~ty_queried

BoardPhrase == <<"resolution", "of", "the", "board", "of", "directors">>

BoardResult == TypeResult("Board Resolution", Frac(9, 10), BoardPhrase, FALSE)

\* the table entries in front of "resolution of the board of directors"
EarlierSignatures ==
    {n \in DOMAIN DOCUMENT_SIGNATURES :
        \E k \in DOMAIN DOCUMENT_SIGNATURES :
            DOCUMENT_SIGNATURES[k].signature = BoardPhrase /\ n < k}

\* C10 as stated: any document whose content contains the exact phrase
\* "resolution of the board of directors" is classified as Board Resolution
\* with confidence 0.9 and that phrase as the signature match.
C10_BoardPhraseAlwaysWins ==
    (ty_pc = "identified" /\ Contains(ty_content, BoardPhrase))
        => ty_result = BoardResult

\* C10, amended: a document whose content contains the phrase "resolution of
\* the board of directors" and none of the three signatures in front of it in
\* the table is classified as Board Resolution with confidence 0.9 and that
\* phrase as the signature match.
C10_BoardPhraseWinsUnlessEarlier ==
    (/\ ty_pc = "identified"
     /\ Contains(ty_content, BoardPhrase)
     /\ SignaturesIn(ty_content) \cap EarlierSignatures = {})
        => ty_result = BoardResult

\* the phrase sits behind a later table entry's phrase and still wins
C10_Witness ==
    /\ ty_pc = "identified"
    /\ ty_content = <<"data", "protection", "policy", NL,
                      "resolution", "of", "the", "board", "of", "directors", NL>>
    /\ ty_result = BoardResult

-----------------------------------------------------------------------------
(* Claims about _fallback_process_identification *)

\* the heuristic fallback produced the result of the last identification
FellBack == cv_pc = "identified" /\ cv_queried /\ ~cv_result.from_rag

\* the number of submitted types that match an indicator of the n-th process
IndicatorScore(n) ==
    Cardinality({d \in DOMAIN cv_types :
        \E i \in DOMAIN process_indicators[n].indicators :
            Contains(lower(cv_types[d]), lower(process_indicators[n].indicators[i]))})

\* the fraction f has the value min(7/10, score / count)
IsFallbackConfidence(f, score, count) ==
    IF 10 * score > 7 * count
    THEN f.num * 10 = 7 * f.den
    ELSE f.num * count = score * f.den

\* C11: _fallback_process_identification returns Unknown with confidence 0.0
\* when every process scores zero, and otherwise a max-scoring process with
\* confidence min(0.7, score / number of submitted types) and that process's
\* required documents; ["Employment Contract"] gives Employment Setup, 0.7,
\* ["Employment Contract"].
C11_FallbackScoresProcesses ==
    FellBack =>
        /\ (\A n \in DOMAIN process_indicators : IndicatorScore(n) = 0)
              => (cv_result.process = "Unknown" /\ cv_result.confidence.num = 0)
        /\ (\E n \in DOMAIN process_indicators : IndicatorScore(n) > 0)
              => \E n \in DOMAIN process_indicators :
                    /\ \A m \in DOMAIN process_indicators :
                          IndicatorScore(m) <= IndicatorScore(n)
                    /\ cv_result.process = process_indicators[n].process
                    /\ IsFallbackConfidence(cv_result.confidence,
                                            IndicatorScore(n), Len(cv_types))
                    /\ cv_result.required_docs
                          = fallback_required_docs(process_indicators[n].process)
        /\ cv_types = <<Words("Employment Contract")>>
              => /\ cv_result.process = "Employment Setup"
                 /\ cv_result.confidence = Frac(7, 10)
                 /\ cv_result.required_docs = <<Words("Employment Contract")>>

\* the fallback scored a batch of two types of which one matches, below the cap
C11_Witness ==
    /\ FellBack
    /\ cv_types = <<Words("Employment Contract"), Words("Unknown")>>
    /\ cv_result.process = "Employment Setup"
    /\ cv_result.confidence = Frac(1, 2)

-----------------------------------------------------------------------------
(* Claims about the label extraction of the two classifiers *)

\* the candidate labels, in list order
TypeCandidates == [n \in DOMAIN DocTypeLabels |-> DocTypeLabels[n].label]
ProcessCandidates == processes

\* the label's words of more than 3 characters that occur in the answer
LongWordsFound(label, answer) ==
    {k \in DOMAIN Words(label) :
        /\ word_len(Words(label)[k]) > 3
        /\ Contains(lower(answer), <<Lower(Words(label)[k])>>)}

ExactIn(candidates, answer) ==
    {n \in DOMAIN candidates : Contains(lower(answer), lower(Words(candidates[n])))}

FuzzyIn(candidates, answer) ==
    {n \in DOMAIN candidates :
        Cardinality(LongWordsFound(candidates[n], answer))
            >= Len(Words(candidates[n])) - 1}

\* the label the exact stage returns, or None
ExactLabel(candidates, answer) ==
    IF answer # <<>> /\ ExactIn(candidates, answer) # {}
    THEN candidates[CHOOSE n \in ExactIn(candidates, answer) :
                        \A m \in ExactIn(candidates, answer) : n <= m]
    ELSE None

\* the label the two-stage cascade returns, or None
CascadeLabel(candidates, answer) ==
    IF answer = <<>> THEN None
    ELSE IF ExactIn(candidates, answer) # {} THEN ExactLabel(candidates, answer)
    ELSE IF FuzzyIn(candidates, answer) # {}
    THEN candidates[CHOOSE n \in FuzzyIn(candidates, answer) :
                        \A m \in FuzzyIn(candidates, answer) : n <= m]
    ELSE None

\* the type classifier got an answer from the query engine
TypeAnswered == ty_pc = "identified" /\ ty_queried /\ ~ty_outcome.raises

\* the process classifier got an answer from the query engine
ProcessAnswered == cv_pc = "identified" /\ cv_queried /\ ~cv_outcome.raises

\* identify_document_type returned the label l (None: no label was extracted)
TypeLabelIs(l) ==
    IF l = None THEN ~ty_result.rag_identification
    ELSE ty_result.rag_identification /\ ty_result.type = l

\* identify_process returned the label l (None: no label was extracted)
ProcessLabelIs(l) ==
    IF l = None THEN ~cv_result.from_rag
    ELSE cv_result.from_rag /\ cv_result.process = l

\* C12 as stated: both label extractions apply the two-stage cascade (exact
\* occurrence, first candidate in list order; then the fuzzy match on words
\* longer than 3 characters); no label is returned if neither stage matches.
C12_BothUseTwoStageCascade ==
    /\ TypeAnswered => TypeLabelIs(CascadeLabel(TypeCandidates, ty_outcome.text))
    /\ ProcessAnswered
          => ProcessLabelIs(CascadeLabel(ProcessCandidates, cv_outcome.text))

\* C12, amended: the document-type label extraction applies the two-stage
\* cascade; the process-label extraction applies the exact stage only (the
\* first process in list order whose name occurs in the answer, without
\* regard to case) and returns no label otherwise.
C12_TypeCascadeProcessExactOnly ==
    /\ TypeAnswered => TypeLabelIs(CascadeLabel(TypeCandidates, ty_outcome.text))
    /\ ProcessAnswered
          => ProcessLabelIs(ExactLabel(ProcessCandidates, cv_outcome.text))

\* an answer with the exact label of a later candidate and enough words of
\* an earlier one: the exact match is returned
C12_Witness ==
    /\ TypeAnswered
    /\ ExactLabel(TypeCandidates, ty_outcome.text) = "Shareholder Resolution"
    /\ 3 \in FuzzyIn(TypeCandidates, ty_outcome.text)
    /\ ty_result.type = "Shareholder Resolution"

-----------------------------------------------------------------------------
(* C13 *)

\* the document loop of lines 130-146 has run over every saved file
DocumentLoopDone == run_pc \in {"identify", "analyze", "comment", "report", "done"}

\* process_document returns an error object for the n-th saved file
ReturnsError(n) ==
    process_document(run_saved[n], run_disk[run_saved[n]]).error # None

\* the n-th saved file takes part in no stage after process_document
ExcludedFromStages(n) ==
    /\ \E e \in DOMAIN run_errors : run_errors[e].src = n
    /\ \A j \in DOMAIN run_processed : run_processed[j].src # n
    /\ \A d \in DOMAIN run_doc_types : run_doc_types[d].filename # run_saved[n]
    /\ run_calls.type[n] = 0
    /\ run_calls.analysis[n] = 0
    /\ \A i \in DOMAIN run_all_issues : run_all_issues[i].document # run_saved[n]
    /\ \A j \in DOMAIN run_handed :
          \A i \in DOMAIN run_handed[j] : run_handed[j][i].document # run_saved[n]

\* the n-th saved file went through the stages the run has reached
TakenThroughStages(n) ==
    /\ \A e \in DOMAIN run_errors : run_errors[e].src # n
    /\ Cardinality({j \in DOMAIN run_processed : run_processed[j].src = n}) = 1
    /\ \E d \in DOMAIN run_doc_types : run_doc_types[d].filename = run_saved[n]
    /\ run_pc \in {"comment", "report", "done"} =>
          \E j \in DOMAIN run_produced : run_processed[j].src = n

\* C13: process_document answers a missing file, a file that is not a .docx
\* and a file that does not parse with an error object; in a run, a saved
\* file with an error object reaches no later stage (type identification,
\* process identification, issue analysis, commenting), and every other saved
\* file of the batch goes through all of them.
C13_ErrorDocumentsAreSkipped ==
    DocumentLoopDone =>
        \A n \in DOMAIN run_saved :
            /\ (\/ ~run_disk[run_saved[n]].exists
                \/ ~is_docx(run_saved[n])
                \/ ~run_disk[run_saved[n]].parses) <=> ReturnsError(n)
            /\ IF ReturnsError(n) THEN ExcludedFromStages(n) ELSE TakenThroughStages(n)

\* a run is over whose first file did not parse and whose second file was
\* typed, analysed with an issue, and commented
C13_Witness ==
    /\ run_pc = "done"
    /\ run_uploads = <<Upload(<<"b", ".docx">>, CorruptFile),
                       Upload(<<"a", ".docx">>, TermsFile)>>
    /\ Len(run_errors) = 1
    /\ Len(run_processed) = 1
    /\ run_processed[1].src = 2
    /\ run_handed = <<run_produced[1]>>
    /\ run_produced[1] # <<>>

-----------------------------------------------------------------------------
(* C18 *)

\* C18 (as stated): in a run the query engine is asked at most once per
\* document for its type, at most once per document for its issues and at
\* most once for the process.  The run asks for the type of a document
\* without a signature in both loops (lines 143 and 164) and for the process
\* both at line 150 and inside generate_process_summary.
C18_AtMostOneQueryPerPurpose ==
    /\ \A n \in DOMAIN run_calls.type : run_calls.type[n] <= 1
    /\ \A n \in DOMAIN run_calls.analysis : run_calls.analysis[n] <= 1
    /\ run_calls.process <= 1

-----------------------------------------------------------------------------
(* C19 *)

\* C19 (as stated): every processed document is handed exactly the issues
\* its own analysis produced, and those are the issues labelled with it.
\* Two uploads of one name are saved to one path, both entries are
\* processed, and the filter by filename hands each the issues of both.
C19_IssuesStayWithTheirDocument ==
    (run_pc \in {"report", "done"} /\ run_highlight) =>
        \A j \in DOMAIN run_processed :
            /\ run_handed[j] = run_produced[j]
            /\ doc_issues(run_all_issues, run_processed[j].filename) = run_produced[j]

-----------------------------------------------------------------------------
(* C20 *)

\* the model was invoked and returned
ChainReturned == en_pc = "answered" /\ en_invoked /\ ~en_chain.raises

\* f"{doc_type} ({source})" of the n-th retrieved context
Citation(n) ==
    <<en_chain.source_documents[n].document_type, en_chain.source_documents[n].source>>

\* the contexts whose citation no earlier context has
FirstCitations ==
    {n \in DOMAIN en_chain.source_documents : \A m \in 1..(n - 1) : Citation(m) # Citation(n)}

\* the k-th of them, in the order of the retrieved contexts
KthFirstCitation(k) ==
    CHOOSE n \in FirstCitations : Cardinality({m \in FirstCitations : m < n}) = k - 1

\* one "- type (source)" line per distinct citation, in order of first occurrence
SourcesListing ==
    Concat([k \in 1..Cardinality(FirstCitations) |->
               <<"-">> \o Citation(KthFirstCitation(k))[1]
                       \o <<Citation(KthFirstCitation(k))[2], NL>>])

\* C20: when the model invocation returns retrieved contexts, the answer is
\* the model's result followed by a Sources listing with each distinct
\* citation "document type (source)" exactly once, in order of first
\* occurrence; with no retrieved context the result is returned as it is.
C20_SourcesListedOnceInOrder ==
    ChainReturned =>
        IF en_chain.source_documents = <<>>
        THEN en_answer = en_chain.result
        ELSE en_answer =
                en_chain.result \o <<NL, NL, "Sources:", NL>> \o SourcesListing

\* three contexts were retrieved, the third citing what the first cites
C20_Witness ==
    /\ ChainReturned
    /\ Len(en_chain.source_documents) = 3
    /\ Citation(1) = Citation(3)
    /\ Citation(1) # Citation(2)
    /\ FirstCitations = {1, 2}
    /\ en_answer = en_chain.result \o <<NL, NL, "Sources:", NL>>
                      \o source_line(en_chain.source_documents[1])
                      \o source_line(en_chain.source_documents[2])

-----------------------------------------------------------------------------
(* C14 *)

\* the engine in the cache was constructed to serve a rebuild request
RebuildServed == kb_pc = "cached" /\ kb_rebuilt /\ ~kb_rebuild

\* C14 (as stated): after a rebuild request the engine holds an index built
\* by a pass over the corpus sources made for that request, and never the
\* snapshot that was on disk before the request.  The request only clears
\* the cache; the new engine's load_or_create_vectorstore finds the snapshot
\* the previous engine saved and loads it without any pass over the corpus.
C14_RebuildReplacesIndex ==
    RebuildServed =>
        /\ kb_build.fetches = 1
        /\ kb_before.gen > 0 => kb_engine.vectorstore # kb_before.gen

-----------------------------------------------------------------------------
(* C15 *)

\* a construction is between its first and its last assignment
UnderConstruction == {"load", "load_setup", "collect", "collect_setup", "constructed"}

\* an engine as load_components returns it: no index, or a whole index of
\* one corpus pass with no chain or a chain over that same index
WholeEngine(e) ==
    /\ e.vectorstore \in 0..kb_passes
    /\ e.qa_chain \in {0, e.vectorstore}

\* C15: a query that interleaves with the construction of an engine, the
\* first or one after a rebuild request, is served by the engine that
\* load_components returned last and by nothing of the engine under
\* construction: it answers with the sentinel when that engine lacks the
\* store, the chain or the model, and otherwise uses a chain over the same
\* whole index as the store it holds.
C15_QueriesNeverSeePartialIndex ==
    /\ WholeEngine(kb_engine)
    /\ kb_seen.asked =>
          /\ kb_seen.used = kb_seen.cached
          /\ IF kb_seen.sentinel
             THEN kb_seen.used.vectorstore = 0 \/ kb_seen.used.qa_chain = 0
                     \/ ~kb_seen.used.llm
             ELSE /\ kb_seen.used.vectorstore \in 1..kb_passes
                  /\ kb_seen.used.qa_chain = kb_seen.used.vectorstore

\* a query was answered from the first index while the second one was
\* assigned to the new engine and its chain not yet set up
C15_Witness ==
    /\ kb_pc = "collect_setup"
    /\ kb_seen.asked
    /\ kb_seen.pc = "collect_setup"
    /\ ~kb_seen.sentinel
    /\ kb_seen.used.vectorstore = 1
    /\ kb_new.vectorstore = 2
    /\ kb_new.qa_chain = 0

-----------------------------------------------------------------------------
(* C16 *)

\* load_or_create_vectorstore found a snapshot and its try block ran through
SnapshotLoaded == kb_build.snapshot = "good" /\ ~kb_build.load_setup_raised

-----------------------------------------------------------------------------
(* C17 *)

\* C17 (as stated): whatever way the embedding provider fails in, the
\* engine takes the placeholder embedding and construction goes on to the
\* load step.  Only ImportError is caught (line 40): any other exception of
\* HuggingFaceEmbeddings(...) leaves __init__ before load_or_create_vectorstore.
C17_EmbeddingFailureNeverAborts ==
    kb_build.embedding # "ok" =>
        /\ ~(kb_pc = "crashed" /\ kb_build.snapshot = "unread")
        /\ kb_pc \in UnderConstruction => kb_new.embeddings = "FakeEmbeddings"

-----------------------------------------------------------------------------
(* Claims about the confidence of a process identification *)

\* identify_process has returned
ProcessIdentified == cv_pc = "identified"

\* the fraction f lies in the interval [lo/10, hi/10]
WithinTenths(f, lo, hi) ==
    /\ f.den > 0
    /\ lo * f.den <= 10 * f.num
    /\ 10 * f.num <= hi * f.den

\* C21: every result of identify_process has a confidence in [0,1]; it is 0.0
\* exactly when the process is Unknown, at most 0.7 when the heuristic
\* fallback produced it, and between 0.3 and 0.9 when it was derived from the
\* model's answer.
C21_ConfidenceWithinBounds ==
    ProcessIdentified =>
        /\ WithinTenths(cv_result.confidence, 0, 10)
        /\ (cv_result.confidence.num = 0) <=> (cv_result.process = "Unknown")
        /\ ~cv_result.from_rag => WithinTenths(cv_result.confidence, 0, 7)
        /\ cv_result.from_rag => WithinTenths(cv_result.confidence, 3, 9)

\* an answer named the process and one required document, submitted twice:
\* 2/1 + 0.3 is capped at 0.9
C21_Witness ==
    /\ ProcessIdentified
    /\ cv_result.from_rag
    /\ cv_types = <<Words("Board Resolution"), Words("Board Resolution")>>
    /\ cv_result.required_docs = <<Words("Board Resolution")>>
    /\ cv_result.confidence = Frac(9, 10)

-----------------------------------------------------------------------------
(* Claims about the persisted metadata file *)

\* the pass has written document_metadata.json
MetadataSaved == ig_pc = "saved"

\* the fields every object of the file has to carry
RequiredMetadataFields == {"source", "category", "document_type", "filename", "file_type"}

\* C22: after an ingestion pass of either producer, whichever sources succeed
\* or fail, the metadata file holds exactly one object per ingested document,
\* and each object carries at least source, category, document_type, filename
\* and file_type.
C22_MetadataFileDescribesCorpus ==
    MetadataSaved =>
        /\ Len(ig_file) = Len(ig_documents)
        /\ \A i \in DOMAIN ig_file : RequiredMetadataFields \subseteq DOMAIN ig_file[i]

-----------------------------------------------------------------------------
(* Claims about the labeled-line strategy of _extract_issues_from_rag *)

\* the answer the analysis got
AnswerText == an_outcome.text

\* analyze_document got a non-empty answer for an analysable document
Answered ==
    an_pc = "analyzed" /\ Analysable /\ ~an_outcome.raises /\ AnswerText # <<>>

\* a label of the set stands at position p and a value follows it
LabelAt(labels, p) ==
    Lower(AnswerText[p]) \in labels /\ SkipSpace(AnswerText, p) # 0

\* the value behind the label at position p: the rest of the line on which
\* the first token after the label stands
ValueEnd(p) == LineEnd(AnswerText, SkipSpace(AnswerText, p))
ValueOf(p) == SubSeq(AnswerText, SkipSpace(AnswerText, p), ValueEnd(p))

\* the positions of the issue-marker matches: an issue label with a value
\* that is not itself part of the value of an earlier match
IssueMarkerMatches ==
    LET labels == {p \in DOMAIN AnswerText : LabelAt(IssueLabels, p)}
        match[p \in labels] ==
            \A q \in {r \in labels : r < p} : match[q] => ValueEnd(q) < p
    IN {p \in labels : match[p]}

\* the k-th smallest position of the set
KthPosition(positions, k) ==
    CHOOSE p \in positions : Cardinality({q \in positions : q <= p}) = k

\* the value of the first match of a label of the set, or the default
FirstValue(labels, default) ==
    LET found == {p \in DOMAIN AnswerText : LabelAt(labels, p)}
    IN IF found = {} THEN default
       ELSE ValueOf(CHOOSE p \in found : \A q \in found : p <= q)

\* the first severity label that High, Medium or Low follows gives the
\* severity, as written
FirstSeverity ==
    LET found == {p \in DOMAIN AnswerText :
                     /\ LabelAt(SeverityLabels, p)
                     /\ Lower(AnswerText[SkipSpace(AnswerText, p)]) \in {"high", "medium", "low"}}
    IN IF found = {} THEN "Medium"
       ELSE AnswerText[SkipSpace(AnswerText, CHOOSE p \in found : \A q \in found : p <= q)]

\* the labeled-line strategy produced the issues
LabeledRan ==
    Answered /\ strategy_json(AnswerText) = <<>> /\ IssueMarkerMatches # {}

\* C23: in the labeled-line strategy every match of an issue marker (Issue:,
\* Problem:, Missing:, Incorrect:, in any case) yields exactly one issue, in
\* order of occurrence, and all issues of the answer carry the first match in
\* the whole answer of the section, severity, suggestion and regulation
\* markers, or General, Medium, no suggestion and "ADGM Regulations" where a
\* marker has no match.
C23_LabeledIssuesShareFirstMatches ==
    LabeledRan =>
        /\ Len(an_issues) = Cardinality(IssueMarkerMatches)
        /\ \A k \in DOMAIN an_issues :
              /\ an_issues[k].issue = strip(ValueOf(KthPosition(IssueMarkerMatches, k)))
              /\ an_issues[k].section = FirstValue(SectionLabels, <<"General">>)
              /\ an_issues[k].severity = FirstSeverity
              /\ an_issues[k].suggestion = FirstValue(SuggestionLabels, NoneText)
              /\ an_issues[k].regulation
                    = FirstValue(RegulationLabels, <<"ADGM", "Regulations">>)

\* an issue line, then two different section lines: the issue carries the
\* first section line and the defaults
C23_Witness ==
    /\ LabeledRan
    /\ AnswerText = <<"Issue:", "clause", "absent", NL, "Clause:", "Quorum", NL,
                      "Section:", "Directors", NL>>
    /\ Len(an_issues) = 1
    /\ an_issues[1].section = <<"Quorum">>
    /\ an_issues[1].severity = "Medium"
    /\ an_issues[1].suggestion = NoneText
    /\ an_issues[1].regulation = <<"ADGM", "Regulations">>

-----------------------------------------------------------------------------
(* Claims about the sentence-heuristic strategy of _extract_issues_from_rag *)

\* the sentences of the answer, in order
Sentences == split_sentences(AnswerText, 1, <<>>)

\* the sentence heuristic is the strategy in charge: no block and no labeled
\* line gave an issue
SentencesScanned ==
    Answered /\ strategy_json(AnswerText) = <<>> /\ IssueMarkerMatches = {}

\* the i-th sentence contains an obligation/deficiency keyword
HasKeyword(i) ==
    \E k \in {"missing", "should", "required", "must", "incorrect", "issue"} :
        Contains(lower(Sentences[i]), <<k>>)

KeywordSentences == {i \in DOMAIN Sentences : HasKeyword(i)}

\* the expected sections the i-th sentence mentions, as indices of the list
SectionsMentioned(i) ==
    {n \in DOMAIN an_sections : Contains(lower(Sentences[i]), lower(an_sections[n]))}

\* the i-th sentence starts with a discourse marker (its first word begins
\* with in, the, section, regarding or part) and mentions an expected section
SetsSection(i) ==
    /\ Sentences[i] # <<>>
    /\ Lower(Sentences[i][1]) \in DiscourseStart
    /\ SectionsMentioned(i) # {}

\* the current section at the i-th sentence
CurrentSection(i) ==
    LET setters == {j \in 1..i : SetsSection(j)}
        last == CHOOSE j \in setters : \A l \in setters : l <= j
    IN IF setters = {} THEN <<"General">>
       ELSE an_sections[CHOOSE n \in SectionsMentioned(last) :
                            \A m \in SectionsMentioned(last) : n <= m]

\* C24: in the sentence-heuristic strategy, scanning the sentences in order,
\* every sentence with an obligation/deficiency keyword yields exactly one
\* issue bound to the current section: the expected section mentioned by the
\* most recent sentence, up to and including this one, that starts with a
\* discourse marker and mentions an expected section, and General while there
\* was none; sentences without a keyword yield no issue.
C24_KeywordSentencesBoundToCurrentSection ==
    SentencesScanned =>
        /\ KeywordSentences = {} => an_issues = <<ManualReviewIssue>>
        /\ KeywordSentences # {} =>
              /\ Len(an_issues) = Cardinality(KeywordSentences)
              /\ \A k \in DOMAIN an_issues :
                    /\ an_issues[k].issue
                          = strip(Sentences[KthPosition(KeywordSentences, k)])
                    /\ an_issues[k].section
                          = CurrentSection(KthPosition(KeywordSentences, k))

\* a keyword sentence that mentions Directors without a discourse marker is
\* bound to General; a marker sentence without keyword then sets Jurisdiction
\* for the keyword sentence behind it, and yields no issue itself
C24_Witness ==
    /\ SentencesScanned
    /\ an_sections = <<<<"Jurisdiction">>, <<"Directors">>>>
    /\ AnswerText = <<"A", "minor", "issue", "in", "Directors", DOT,
                      "Regarding", "Jurisdiction", DOT,
                      "Terms", "should", "follow", DOT>>
    /\ Len(an_issues) = 2
    /\ an_issues[1].section = <<"General">>
    /\ an_issues[2].section = <<"Jurisdiction">>

\* the i-th sentence contains one of the words
HasWord(i, words) == \E w \in words : Contains(lower(Sentences[i]), <<w>>)

\* C25: an issue of the sentence-heuristic strategy has severity High if its
\* sentence contains an intensifier (critical, serious, major, high),
\* otherwise Low if it contains a diminutive (minor, small, low), otherwise
\* Medium; a sentence with both an intensifier and a diminutive gets High.
C25_SentenceSeverity ==
    (SentencesScanned /\ KeywordSentences # {}) =>
        \A k \in DOMAIN an_issues :
            LET i == KthPosition(KeywordSentences, k)
                intensifier == HasWord(i, {"critical", "serious", "major", "high"})
                diminutive == HasWord(i, {"minor", "small", "low"})
            IN /\ intensifier => an_issues[k].severity = "High"
               /\ (~intensifier /\ diminutive) => an_issues[k].severity = "Low"
               /\ (~intensifier /\ ~diminutive) => an_issues[k].severity = "Medium"

\* a sentence with a diminutive and an intensifier gave High, one with a
\* diminutive alone Low, one with neither Medium
C25_Witness ==
    /\ SentencesScanned
    /\ AnswerText = <<"A", "minor", "but", "serious", "gap", "is", "required", DOT,
                      "A", "minor", "issue", "in", "Directors", DOT,
                      "The", "Directors", "clause", "is", "missing", DOT>>
    /\ Len(an_issues) = 3
    /\ an_issues[1].severity = "High"
    /\ an_issues[2].severity = "Low"
    /\ an_issues[3].severity = "Medium"

-----------------------------------------------------------------------------
(* Claims about the structured-block strategy of _extract_issues_from_rag *)

\* the closing brace of the block that opens at position p: the first "}"
\* behind it
BlockEnd(p) ==
    CHOOSE c \in DOMAIN AnswerText :
        /\ c > p
        /\ AnswerText[c] = "}"
        /\ \A d \in DOMAIN AnswerText : (d > p /\ AnswerText[d] = "}") => c <= d

\* the positions where a brace-delimited block opens: a "{" with a "}" behind
\* it that does not lie inside an earlier block
BlockOpenings ==
    LET opens == {p \in DOMAIN AnswerText :
                     /\ AnswerText[p] = "{"
                     /\ \E c \in DOMAIN AnswerText : c > p /\ AnswerText[c] = "}"}
        block[p \in opens] ==
            \A q \in {r \in opens : r < p} : block[q] => BlockEnd(q) < p
    IN {p \in opens : block[p]}

\* what stands between the braces of the block, line breaks aside
BlockTokens(p) ==
    {AnswerText[i] : i \in {j \in DOMAIN AnswerText : j > p /\ j < BlockEnd(p)}} \ {NL}

\* the block parses as a record: its braces hold members only
ParsesAsRecord(p) == BlockTokens(p) \subseteq JsonTokens

\* the fields of the record of a block that parses
FieldsOf(p) == {MemberOf(t).key : t \in BlockTokens(p)}

\* the value of a field of the block
FieldOf(p, key) ==
    MemberOf(CHOOSE t \in BlockTokens(p) : MemberOf(t).key = key).val

\* the blocks that parse and carry a section and an issue field
AcceptedBlocks ==
    {p \in BlockOpenings :
        ParsesAsRecord(p) /\ {"section", "issue"} \subseteq FieldsOf(p)}

\* C26: in the structured-block strategy a brace-delimited block yields an
\* issue exactly when it parses as a record with a section and an issue
\* field; a block without severity field gets Medium; a block that does not
\* parse or lacks a field is skipped, and the blocks behind it are still
\* scanned.
C26_BlocksWithSectionAndIssue ==
    Answered =>
        /\ AcceptedBlocks # {} =>
              /\ Len(an_issues) = Cardinality(AcceptedBlocks)
              /\ \A k \in DOMAIN an_issues :
                    LET p == KthPosition(AcceptedBlocks, k)
                    IN /\ an_issues[k].section = FieldOf(p, "section")
                       /\ an_issues[k].issue = FieldOf(p, "issue")
                       /\ an_issues[k].severity
                             = IF "severity" \in FieldsOf(p)
                               THEN FieldOf(p, "severity") ELSE "Medium"
        /\ AcceptedBlocks = {} =>
              an_issues \in {strategy_labeled(AnswerText),
                             strategy_sentences(AnswerText, an_sections),
                             <<ManualReviewIssue>>}

\* a block that does not parse, one without section field, and behind them a
\* block with section and issue but no severity: one issue, Medium
C26_Witness ==
    /\ Answered
    /\ AnswerText = <<"{", "see", "below", "}", "{", J_issue, "}",
                      "{", J_section, J_issue, "}">>
    /\ Cardinality(BlockOpenings) = 3
    /\ Len(an_issues) = 1
    /\ an_issues[1].section = <<"directors">>
    /\ an_issues[1].severity = "Medium"

-----------------------------------------------------------------------------
(* Claims about the process description of the summary and the report *)

\* the run has built its report
Reported == run_pc = "done"

\* the text begins like the degraded-mode sentinel of rag_engine.query
IsSentinelText(description) ==
    /\ Len(description) >= 5
    /\ SubSeq(description, 1, 5) = SubSeq(Sentinel, 1, 5)

\* C27: when the query engine returns the degraded-mode sentinel (or no
\* answer) for the process-description query, _get_process_description
\* returns the fixed fallback description of the process; the sentinel text
\* is never presented as the process description in the summary or report.
C27_SentinelNeverShownAsDescription ==
    Reported =>
        /\ ~IsSentinelText(run_summary.process_description)
        /\ ~IsSentinelText(run_report.process_description)

-----------------------------------------------------------------------------
(* Claims about check_missing_documents *)

\* check_missing_documents has returned
MissingChecked == cv_pc = "checked"

\* the process of the checked identification is Unknown, or there is none
NoKnownProcess == cv_checked = NoProcessInfo \/ cv_checked.process = "Unknown"

\* a submitted type contains the i-th required name or is contained in it,
\* letter case aside
Submitted(i) ==
    \E d \in DOMAIN cv_types :
        \/ Contains(lower(cv_types[d]), lower(cv_checked.required_docs[i]))
        \/ Contains(lower(cv_checked.required_docs[i]), lower(cv_types[d]))

\* the positions of the required list that are not submitted
NotSubmitted == {i \in DOMAIN cv_checked.required_docs : ~Submitted(i)}

\* C28: check_missing_documents returns the empty list when the process is
\* Unknown or absent; otherwise it returns, in required-list order, exactly
\* the required documents that no submitted type contains or is contained in
\* (case-insensitively), so a required document submitted under its exact
\* name is never reported missing.
C28_MissingAreUnmatchedRequired ==
    MissingChecked =>
        /\ NoKnownProcess => cv_missing = <<>>
        /\ ~NoKnownProcess =>
              /\ Len(cv_missing) = Cardinality(NotSubmitted)
              /\ \A k \in DOMAIN cv_missing :
                    cv_missing[k] = cv_checked.required_docs[KthPosition(NotSubmitted, k)]
              /\ \A i \in DOMAIN cv_checked.required_docs :
                    (\E d \in DOMAIN cv_types : cv_types[d] = cv_checked.required_docs[i])
                        => \A k \in DOMAIN cv_missing :
                               cv_missing[k] # cv_checked.required_docs[i]

\* of three required documents the first and the last are submitted under
\* their exact names; the second is reported missing
C28_Witness ==
    /\ MissingChecked
    /\ cv_types = <<Words("Articles of Association"), Words("Board Resolution")>>
    /\ cv_checked.process = "Company Incorporation"
    /\ cv_checked.required_docs
          = <<Words("Articles of Association"), Words("Memorandum of Association"),
              Words("Board Resolution")>>
    /\ cv_missing = <<Words("Memorandum of Association")>>

-----------------------------------------------------------------------------
(* Claims about the compliance percentage of the report *)

\* C29: the compliance percentage of the report is the score of exactly the
\* process identification and missing-document list that the same report
\* shows, also when the model answers the process question differently on
\* different calls.
C29_ReportScoresWhatItShows ==
    Reported =>
        run_report.compliance_percentage
            = calculate_compliance_percentage(run_report.missing_documents,
                                              run_all_issues)

-----------------------------------------------------------------------------
(* Claims about the confidence tiers of identify_document_type *)

\* identify_document_type has returned
TypeReturned == ty_pc = "identified"

\* the four confidences a classification can carry
ConfidenceTiers == {Frac(9, 10), Frac(8, 10), Frac(6, 10), Frac(0, 10)}

\* C30: for every filename, content and behaviour of the query engine (an
\* answer, the sentinel, an error text or an exception) identify_document_type
\* returns a result whose confidence is 0.9, 0.8, 0.6 or 0.0; 0.9 goes with a
\* signature match, 0.8 with an identification by the model's answer; the
\* type is Unknown exactly when the confidence is 0.0; empty content gives
\* Unknown with 0.0 whatever the filename.
C30_ConfidenceTiers ==
    TypeReturned =>
        /\ ty_result.confidence \in ConfidenceTiers
        /\ (ty_result.confidence = Frac(9, 10))
              <=> (ty_result.signature_match # AbsentText)
        /\ (ty_result.confidence = Frac(8, 10)) <=> ty_result.rag_identification
        /\ (ty_result.type = "Unknown") <=> (ty_result.confidence = Frac(0, 10))
        /\ (ty_content = <<>>)
              => (ty_result.type = "Unknown" /\ ty_result.confidence = Frac(0, 10))

\* a document without content but with a telling filename stays Unknown
C30_Witness ==
    /\ TypeReturned
    /\ ty_content = <<>>
    /\ ty_filename = <<"Board", "Resolution", ".docx">>
    /\ ty_result = TypeResult("Unknown", Frac(0, 10), AbsentText, FALSE)

====
